---- MODULE Spec2Model ----
(***************************************************************************)
(* Email risk-scoring service: the request/response data model, the        *)
(* hardened validators, the Response Builder and the production HTTP       *)
(* routes (src/backend), as a state machine.                               *)
(*                                                                         *)
(* Conventions.                                                            *)
(*   - A Python value of unknown type (a JSON payload, an Optional field)  *)
(*     is a tagged pair <<type, value>>; None is <<"None">>.               *)
(*   - A Python str is a sequence of one-character strings.                *)
(*   - A float score is an integer number of tenths (One = 1.0); the raw   *)
(*     classifier scores NaN and +/-inf are the strings "nan" and "inf".   *)
(*   - A raised exception is the value <<"raise", kind>>.                  *)
(***************************************************************************)
EXTENDS Integers, Sequences, FiniteSets, TLC

VARIABLES
    route,      \* which entry point handles the request
    data,       \* request.get_json(): the JSON payload
    pc,         \* position of the handler
    emails,     \* the parsed EmailRequest records (one for /analyze)
    idx,        \* index of the email being analysed
    vi,         \* index in the validator list of the next validator
    context,    \* attributes the validators have set on the Context
    results,    \* EmailAnalysisResponse records built so far
    status,     \* HTTP status of the answer (0: none yet)
    reply,      \* body of the answer
    log,        \* history: validators run and responses built, in order
    rec,        \* the record under test, or the result of the operation applied
    wire,       \* its dictionary form, or what the classifiers answer in this run
    back        \* the record read back from the dictionary

vars == << route, data, pc, emails, idx, vi, context, results, status, reply,
           log, rec, wire, back >>

(***************************************************************************)
(* Python values                                                           *)
(***************************************************************************)
PyNone == <<"None">>
PyBool(b) == <<"bool", b>>
PyInt(n) == <<"int", n>>
PyStr(s) == <<"str", s>>
PyList(l) == <<"list", l>>
PyDict(d) == <<"dict", d>>
Raise(kind) == <<"raise", kind>>

TypeOf(v) == v[1]
Val(v) == v[2]
IsRaise(v) == TypeOf(v) = "raise"
EmptyDict == [k \in {} |-> PyNone]

\* "v is not None" in place of bool(v).
NotNone(v) == TypeOf(v) # "None"

\* bool(v): None, False, 0, "", [] and {} are falsy.
Truthy(v) ==
    CASE TypeOf(v) = "None" -> FALSE
      [] TypeOf(v) = "bool" -> Val(v)
      [] TypeOf(v) = "int"  -> Val(v) # 0
      [] TypeOf(v) = "str"  -> Len(Val(v)) > 0
      [] TypeOf(v) = "list" -> Len(Val(v)) > 0
      [] TypeOf(v) = "dict" -> DOMAIN Val(v) # {}
      [] OTHER -> TRUE

\* d.get(k, default) on a dict d.
DictGet(d, k, default) == IF k \in DOMAIN Val(d) THEN Val(d)[k] ELSE default

(***************************************************************************)
(* Strings                                                                 *)
(***************************************************************************)
\* The printable ASCII characters, 0x20 .. 0x7E, in code order (the grave
\* accent, 0x60, is written "BTICK").
Ascii ==
    << " ", "!", "\"", "#", "$", "%", "&", "'", "(", ")", "*", "+", ",", "-", ".", "/",
       "0", "1", "2", "3", "4", "5", "6", "7", "8", "9", ":", ";", "<", "=", ">", "?",
       "@", "A", "B", "C", "D", "E", "F", "G", "H", "I", "J", "K", "L", "M", "N", "O",
       "P", "Q", "R", "S", "T", "U", "V", "W", "X", "Y", "Z", "[", "\\", "]", "^", "_",
       "BTICK", "a", "b", "c", "d", "e", "f", "g", "h", "i", "j", "k", "l", "m", "n", "o",
       "p", "q", "r", "s", "t", "u", "v", "w", "x", "y", "z", "{", "|", "}", "~" >>

\* ord(c), tabulated once.
OrdTable ==
    [c \in { Ascii[i] : i \in 1..Len(Ascii) } |->
        (CHOOSE i \in 1..Len(Ascii) : Ascii[i] = c) + 31]
Ord(c) == OrdTable[c]

IsUpper(c) == Ord(c) >= 65 /\ Ord(c) <= 90
IsLowerLetter(c) == Ord(c) >= 97 /\ Ord(c) <= 122
IsDigit(c) == Ord(c) >= 48 /\ Ord(c) <= 57
IsSpace(c) == c = " "

\* str.lower()
LowerChar(c) == IF IsUpper(c) THEN Ascii[Ord(c) + 32 - 31] ELSE c
RECURSIVE Lower(_)
Lower(s) ==
    IF Len(s) = 0 THEN << >>
    ELSE IF Len(s) = 1 THEN << LowerChar(s[1]) >>
    ELSE LET h == Len(s) \div 2
         IN  Lower(SubSeq(s, 1, h)) \o Lower(SubSeq(s, h + 1, Len(s)))

\* sub in s
StartsAt(s, i, sub) ==
    /\ i + Len(sub) - 1 <= Len(s)
    /\ \A j \in 1..Len(sub) : s[i + j - 1] = sub[j]
Contains(s, sub) == \E i \in 1..(Len(s) + 1) : StartsAt(s, i, sub)

\* s.split(sep) for a one-character separator: the pieces between separators.
RECURSIVE SplitFrom(_, _, _, _)
SplitFrom(s, sep, i, cur) ==
    IF i > Len(s) THEN << cur >>
    ELSE IF s[i] = sep THEN << cur >> \o SplitFrom(s, sep, i + 1, << >>)
    ELSE SplitFrom(s, sep, i + 1, Append(cur, s[i]))
Split(s, sep) == SplitFrom(s, sep, 1, << >>)

\* s.rsplit(' ', 1)[0]: what precedes the last space, or s when it has none.
LastSpace(s) ==
    IF \E i \in 1..Len(s) : s[i] = " "
    THEN CHOOSE i \in 1..Len(s) : s[i] = " " /\ \A j \in (i + 1)..Len(s) : s[j] # " "
    ELSE 0
\* s.split(' ', 1)[0]: what precedes the first space.
SplitHead(s) ==
    IF \E i \in 1..Len(s) : s[i] = " "
    THEN SubSeq(s, 1, (CHOOSE i \in 1..Len(s) :
                          s[i] = " " /\ \A j \in 1..(i - 1) : s[j] # " ") - 1)
    ELSE s
RSplitHead(s) == IF LastSpace(s) = 0 THEN s ELSE SubSeq(s, 1, LastSpace(s) - 1)

\* len(s.split()): the number of maximal runs of non-whitespace characters.
WordCount(s) ==
    Cardinality({ i \in 1..Len(s) :
                    /\ ~IsSpace(s[i])
                    /\ (i = 1 \/ IsSpace(s[i - 1])) })

\* A set of strings as a sequence, in some fixed order.
RECURSIVE SetToSeq(_)
SetToSeq(S) ==
    IF S = {} THEN << >>
    ELSE LET x == CHOOSE y \in S : TRUE IN << x >> \o SetToSeq(S \ {x})

Ok(v) == <<"ok", v>>
IsOk(r) == r[1] = "ok"

(***************************************************************************)
(* URL pattern                                                             *)
(*   http[s]?://(?:[a-zA-Z]|[0-9]|[$-_@.&+]|[!*\\(\\),]|(?:%[0-9a-fA-F]    *)
(*   [0-9a-fA-F]))+                                                        *)
(* Inside the third class, $-_ is the range 0x24 .. 0x5F.  Every character *)
(* of a %XX escape is accepted by the single-character classes, which the  *)
(* alternation tries first, so a match is "http", an optional "s", "://"   *)
(* and the longest non-empty run of accepted characters.                   *)
(***************************************************************************)
UrlChar(c) ==
    \/ IsUpper(c) \/ IsLowerLetter(c)
    \/ IsDigit(c)
    \/ (Ord(c) >= 36 /\ Ord(c) <= 95) \/ c \in {"@", ".", "&", "+"}
    \/ c \in {"!", "*", "\\", "(", ")", ","}

RECURSIVE RunEnd(_, _)
RunEnd(s, i) == IF i <= Len(s) /\ UrlChar(s[i]) THEN RunEnd(s, i + 1) ELSE i

\* A pattern that reads http:// only: http://(?:...)+
MatchEndHttpOnly(s, i) ==
    IF StartsAt(s, i, << "h", "t", "t", "p", ":", "/", "/" >>) /\ RunEnd(s, i + 7) > i + 7
    THEN RunEnd(s, i + 7)
    ELSE 0

\* The index after the match starting at i, or 0 when none starts there.
MatchEnd(s, i) ==
    LET http == << "h", "t", "t", "p" >>
        sep == << ":", "/", "/" >>
        j == IF StartsAt(s, i, http \o << "s" >> \o sep) THEN i + 8
             ELSE IF StartsAt(s, i, http \o sep) THEN i + 7
             ELSE 0
    IN  IF j = 0 THEN 0
        ELSE IF RunEnd(s, j) > j THEN RunEnd(s, j) ELSE 0

\* url_pattern.findall(s): the leftmost, non-overlapping matches in order.
RECURSIVE FindAllFrom(_, _)
FindAllFrom(s, i) ==
    LET starts == { j \in i..Len(s) : MatchEnd(s, j) > 0 }
    IN  IF starts = {} THEN << >>
        ELSE LET j == CHOOSE k \in starts : \A l \in starts : k <= l
             IN  << SubSeq(s, j, MatchEnd(s, j) - 1) >> \o FindAllFrom(s, MatchEnd(s, j))
findall(s) == FindAllFrom(s, 1)

(***************************************************************************)
(* Request models (models.py)                                              *)
(***************************************************************************)
\* Iterating a Python value: the elements of a list, the characters of a
\* str, the keys of a dict; anything else is not iterable.
Iter(v) ==
    CASE TypeOf(v) = "list" -> Ok(Val(v))
      [] TypeOf(v) = "str"  -> Ok([i \in 1..Len(Val(v)) |-> PyStr(<< Val(v)[i] >>)])
      [] TypeOf(v) = "dict" ->
            Ok([i \in 1..Cardinality(DOMAIN Val(v)) |->
                    PyStr(<< SetToSeq(DOMAIN Val(v))[i] >>)])
      [] OTHER -> Raise("TypeError")

\* An attachment built with att.get(key) throughout: None where a key is absent.
AttachmentRequestWithoutDefaults(att) ==
    [ filename     |-> DictGet(att, "filename", PyNone),
      size         |-> DictGet(att, "size", PyNone),
      content_type |-> DictGet(att, "content_type", PyNone),
      bytes        |-> DictGet(att, "bytes", PyNone) ]

\* AttachmentRequest(filename=att.get("filename", ""), ...)
AttachmentRequest(att) ==
    [ filename     |-> DictGet(att, "filename", PyStr(<< >>)),
      size         |-> DictGet(att, "size", PyInt(0)),
      content_type |-> DictGet(att, "content_type", PyStr(<< >>)),
      bytes        |-> DictGet(att, "bytes", PyNone) ]

\* EmailRequest.from_dict(data): Ok(record), or the exception it raises.
EmailRequest_from_dict(d) ==
    IF TypeOf(d) # "dict" THEN Raise("AttributeError")
    ELSE
    LET raw == DictGet(d, "attachments", PyNone)
        it  == IF Truthy(raw) THEN Iter(raw) ELSE Ok(<< >>)
    IN  IF IsRaise(it) THEN it
        ELSE IF \E i \in 1..Len(Val(it)) : TypeOf(Val(it)[i]) # "dict"
        THEN Raise("AttributeError")
        ELSE Ok([ subject     |-> DictGet(d, "subject", PyNone),
                  body        |-> DictGet(d, "body", PyNone),
                  from_       |-> DictGet(d, "from", PyNone),
                  to          |-> DictGet(d, "to", PyNone),
                  cc          |-> DictGet(d, "cc", PyList(<< >>)),
                  bcc         |-> DictGet(d, "bcc", PyList(<< >>)),
                  reply_to    |-> DictGet(d, "reply_to", PyNone),
                  date        |-> DictGet(d, "date", PyNone),
                  attachments |-> [i \in 1..Len(Val(it)) |->
                                      AttachmentRequest(Val(it)[i])],
                  headers     |-> DictGet(d, "headers", PyDict(EmptyDict)) ])

\* A batch parser that leaves out the emails that fail to parse.
BatchParsedLeniently(d) ==
    IF TypeOf(d) # "dict" THEN Raise("AttributeError")
    ELSE
    LET it == Iter(DictGet(d, "emails", PyList(<< >>)))
    IN  IF IsRaise(it) THEN it
        ELSE LET parsed == [i \in 1..Len(Val(it)) |->
                               EmailRequest_from_dict(Val(it)[i])]
                 good == SelectSeq(parsed, IsOk)
             IN  Ok([i \in 1..Len(good) |-> Val(good[i])])

\* BatchEmailRequest.from_dict(data): Ok(sequence of records), or the
\* exception raised by the first element that fails.
BatchEmailRequest_from_dict(d) ==
    IF TypeOf(d) # "dict" THEN Raise("AttributeError")
    ELSE
    LET it == Iter(DictGet(d, "emails", PyList(<< >>)))
    IN  IF IsRaise(it) THEN it
        ELSE LET parsed == [i \in 1..Len(Val(it)) |->
                               EmailRequest_from_dict(Val(it)[i])]
             IN  IF \E i \in 1..Len(parsed) : IsRaise(parsed[i])
                 THEN parsed[CHOOSE i \in 1..Len(parsed) :
                         IsRaise(parsed[i]) /\ \A j \in 1..(i - 1) : IsOk(parsed[j])]
                 ELSE Ok([i \in 1..Len(parsed) |-> Val(parsed[i])])

(***************************************************************************)
(* Classifier results                                                      *)
(***************************************************************************)
\* The float 1.0, in tenths.
One == 10

\* A float: kind "num" with its value in tenths, or "nan", "inf", "-inf".
PyFloat(kind, tenths) == <<"float", kind, tenths>>

\* A score that is zeroed when NaN or infinite but never clamped.
SanitizeUnclamped(raw) == IF raw[2] # "num" THEN 0 ELSE raw[3]

\* 0.0 if (math.isnan(raw) or math.isinf(raw)) else max(0.0, min(1.0, raw))
Sanitize(raw) ==
    IF raw[2] # "num" THEN 0
    ELSE IF raw[3] > One THEN One
    ELSE IF raw[3] < 0 THEN 0
    ELSE raw[3]

s_phishing == << "p", "h", "i", "s", "h", "i", "n", "g" >>
s_malicious == << "m", "a", "l", "i", "c", "i", "o", "u", "s" >>
s_fraud == << "f", "r", "a", "u", "d" >>

\* self.max_length when the tokenizer gives no usable model_max_length.
max_length == 512

\* _truncate_text(text, max_tokens): Ok(str), or the exception of len(text).
_truncate_text(text, max_tokens) ==
    IF TypeOf(text) \notin {"str", "list", "dict"} THEN Raise("TypeError")
    ELSE IF TypeOf(text) # "str" THEN Ok(text)
    ELSE IF Len(Val(text)) <= max_tokens * 3 THEN Ok(text)
    ELSE Ok(PyStr(RSplitHead(SubSeq(Val(text), 1, max_tokens * 3))))

(***************************************************************************)
(* Context (service/context.py): the attributes set so far, by name.       *)
(* hasattr(context, a) is a \in DOMAIN context.                            *)
(***************************************************************************)
Context == [a \in {} |-> 0]
hasattr(ctx, a) == a \in DOMAIN ctx
SetAttr(ctx, a, v) == [k \in DOMAIN ctx \cup {a} |-> IF k = a THEN v ELSE ctx[k]]
SetScore(ctx, scoreAttr, verdictAttr, score, verdict) ==
    SetAttr(SetAttr(ctx, scoreAttr, score), verdictAttr, verdict)

(***************************************************************************)
(* Text validators: Email (body), Sender (from), Subject (subject),        *)
(* FraudDetection (body).  `out` is what self.pipeline(...) does on this   *)
(* call: Ok(result) or a raised exception.                                 *)
(***************************************************************************)
\* The try block of validate, from the truncation to the verdict: the pair
\* <<score, verdict>> it leaves on the context (<<0, FALSE>> from the except
\* and else branches).
Classify(text, out, words) ==
    LET tr == _truncate_text(text, max_length)
    IN  IF IsRaise(tr) \/ IsRaise(out) THEN << 0, FALSE >>
        ELSE IF ~(TypeOf(Val(out)) = "list" /\ Len(Val(Val(out))) > 0)
        THEN << 0, FALSE >>
        ELSE LET first == Val(Val(out))[1]
             IN  IF TypeOf(first) # "dict" THEN << 0, FALSE >>
                 ELSE LET score == Sanitize(DictGet(first, "score", PyFloat("num", 0)))
                          label == Lower(Val(DictGet(first, "label", PyStr(<< >>))))
                      IN  << score,
                             \/ \E w \in words : Contains(label, w)
                             \/ score * 2 > One >>

Email_validate(ctx, req, out) ==
    IF ~Truthy(req.body)
    THEN SetScore(ctx, "email_body_phishing_score", "email_body_is_phishing", 0, FALSE)
    ELSE LET r == Classify(req.body, out, {s_phishing, s_malicious})
         IN  SetScore(ctx, "email_body_phishing_score", "email_body_is_phishing",
                      r[1], r[2])

\* A sender validator that follows the verdict on the body when there is one.
SenderAfterEmail(ctx, req, out) ==
    IF hasattr(ctx, "email_body_is_phishing") /\ ctx["email_body_is_phishing"]
    THEN SetScore(ctx, "sender_phishing_score", "sender_is_phishing", One, TRUE)
    ELSE IF ~Truthy(req.from_)
    THEN SetScore(ctx, "sender_phishing_score", "sender_is_phishing", 0, FALSE)
    ELSE LET r == Classify(req.from_, out, {s_phishing, s_malicious})
         IN  SetScore(ctx, "sender_phishing_score", "sender_is_phishing", r[1], r[2])

Sender_validate(ctx, req, out) ==
    IF ~Truthy(req.from_)
    THEN SetScore(ctx, "sender_phishing_score", "sender_is_phishing", 0, FALSE)
    ELSE LET r == Classify(req.from_, out, {s_phishing, s_malicious})
         IN  SetScore(ctx, "sender_phishing_score", "sender_is_phishing", r[1], r[2])

Subject_validate(ctx, req, out) ==
    IF ~Truthy(req.subject)
    THEN SetScore(ctx, "subject_phishing_score", "subject_is_phishing", 0, FALSE)
    ELSE LET r == Classify(req.subject, out, {s_phishing, s_malicious})
         IN  SetScore(ctx, "subject_phishing_score", "subject_is_phishing", r[1], r[2])

FraudDetection_validate(ctx, req, out) ==
    IF ~Truthy(req.body)
    THEN SetScore(ctx, "fraud_score", "is_fraud", 0, FALSE)
    ELSE LET r == Classify(req.body, out, {s_fraud, s_malicious})
         IN  SetScore(ctx, "fraud_score", "is_fraud", r[1], r[2])

(***************************************************************************)
(* MaliciousUrlDetector.  `f` maps each URL to what self.pipeline does on  *)
(* it.                                                                     *)
(***************************************************************************)
\* url[:self.max_length * 3] if len(url) > self.max_length * 3 else url
truncated_url(url) ==
    IF Len(url) > max_length * 3 THEN SubSeq(url, 1, max_length * 3) ELSE url

\* A failed URL that leaves no entry behind.
NoEntry(url, out) == << >>

\* The except branch of the for loop: the entry of a URL whose
\* classification raised.
FailedEntry(url, out) ==
    << [ url |-> url, is_malicious |-> FALSE, score |-> 0, error |-> Val(out) ] >>

\* One pass of the for loop: the entries appended for this URL (none when
\* the classifier answers with anything but a non-empty list).
UrlEntry(url, out) ==
    IF IsRaise(out) THEN FailedEntry(url, out)
    ELSE IF ~(TypeOf(Val(out)) = "list" /\ Len(Val(Val(out))) > 0) THEN << >>
    ELSE LET first == Val(Val(out))[1]
         IN  IF TypeOf(first) # "dict"
             THEN << [ url |-> url, is_malicious |-> FALSE, score |-> 0,
                       error |-> "AttributeError" ] >>
             ELSE LET score == Sanitize(DictGet(first, "score", PyFloat("num", 0)))
                      label == Lower(Val(DictGet(first, "label", PyStr(<< >>))))
                  IN  << [ url |-> url,
                           is_malicious |->
                               \/ Contains(label, s_malicious)
                               \/ Contains(label, s_phishing)
                               \/ score * 2 > One,
                           score |-> score,
                           label |-> label ] >>

\* A counter that counts every entry.
IncrementPerEntry(count, appended) == count + Len(appended)

\* "if is_malicious: context.malicious_url_count += 1", reached only after
\* the entry of an answered URL has been appended (never from the except
\* branch).
Increment(count, appended) ==
    IF appended # << >> /\ "error" \notin DOMAIN appended[1]
                       /\ appended[1].is_malicious
    THEN count + 1
    ELSE count

\* The for loop over urls, from the results list and the counter in acc.
RECURSIVE UrlLoop(_, _, _)
UrlLoop(urls, f, acc) ==
    IF urls = << >> THEN acc
    ELSE LET appended == UrlEntry(Head(urls), f[truncated_url(Head(urls))])
         IN  UrlLoop(Tail(urls), f,
                     [ results |-> acc.results \o appended,
                       count   |-> Increment(acc.count, appended) ])

SetUrls(ctx, entries, count) ==
    SetAttr(SetAttr(ctx, "url_detection_results", entries), "malicious_url_count", count)

MaliciousUrlDetector_validate(ctx, req, f) ==
    IF ~Truthy(req.body) THEN SetUrls(ctx, << >>, 0)
    ELSE IF TypeOf(req.body) # "str" THEN SetUrls(ctx, << >>, 0)
    ELSE LET acc == UrlLoop(findall(Val(req.body)), f,
                            [ results |-> << >>, count |-> 0 ])
         IN  SetUrls(ctx, acc.results, acc.count)

(***************************************************************************)
(* MalConvDetector (service/malware/malconv.py).  `g` maps the bytes of    *)
(* an attachment to the classifier's <<is_malicious, confidence>>.         *)
(***************************************************************************)
RECURSIVE MalwareEntries(_, _)
MalwareEntries(atts, g) ==
    IF atts = << >> THEN << >>
    ELSE (IF Head(atts).bytes = PyNone THEN << >>
          ELSE << [ filename     |-> Head(atts).filename,
                    is_malicious |-> g[Head(atts).bytes][1],
                    confidence   |-> g[Head(atts).bytes][2] ] >>)
         \o MalwareEntries(Tail(atts), g)

MalConvDetector_validate(ctx, req, g) ==
    SetAttr(ctx, "malware_detection_results", MalwareEntries(req.attachments, g))

(***************************************************************************)
(* Response Builder (service/response_builder.py)                          *)
(***************************************************************************)
\* x or default
OrDefault(x, default) == IF Truthy(x) THEN x ELSE default

suspicious_keywords ==
    << << "u", "r", "g", "e", "n", "t" >>,
       << "a", "c", "t", " ", "n", "o", "w" >>,
       << "c", "l", "i", "c", "k", " ", "h", "e", "r", "e" >>,
       << "l", "i", "m", "i", "t", "e", "d", " ", "t", "i", "m", "e" >>,
       << "w", "i", "n", "n", "e", "r" >>,
       << "p", "r", "i", "z", "e" >>,
       << "c", "o", "n", "g", "r", "a", "t", "u", "l", "a", "t", "i", "o", "n", "s" >>,
       << "v", "e", "r", "i", "f", "y" >>,
       << "s", "u", "s", "p", "e", "n", "d", "e", "d" >>,
       << "a", "c", "c", "o", "u", "n", "t" >>,
       << "p", "a", "s", "s", "w", "o", "r", "d" >> >>

\* [kw for kw in suspicious_keywords if kw in text.lower()]
RECURSIVE KeywordHits(_, _)
KeywordHits(kws, text) ==
    IF kws = << >> THEN << >>
    ELSE (IF Contains(Lower(text), Head(kws)) THEN << Head(kws) >> ELSE << >>)
         \o KeywordHits(Tail(kws), text)

\* The URLs of the entries found malicious only.
RECURSIVE DetectedMaliciousUrls(_)
DetectedMaliciousUrls(entries) ==
    IF entries = << >> THEN << >>
    ELSE (IF Head(entries).is_malicious THEN << Head(entries).url >> ELSE << >>)
         \o DetectedMaliciousUrls(Tail(entries))

\* [r.get("url", "") for r in context.url_detection_results if r.get("url")]
RECURSIVE DetectedUrls(_)
DetectedUrls(entries) ==
    IF entries = << >> THEN << >>
    ELSE (IF Len(Head(entries).url) > 0 THEN << Head(entries).url >> ELSE << >>)
         \o DetectedUrls(Tail(entries))

\* A float quotient num / den, kept exact.
Ratio(num, den) == [ num |-> num, den |-> den ]

_build_content(ctx, email) ==
    LET subject == OrDefault(email.subject, PyStr(<< >>))
        body    == OrDefault(email.body, PyStr(<< >>))
    IN  IF TypeOf(subject) # "str" \/ TypeOf(body) # "str" THEN Raise("TypeError")
        ELSE
        LET s == Val(subject)
            b == Val(body)
            subject_urls == findall(s)
            subject_kw   == KeywordHits(suspicious_keywords, s)
            body_urls    == IF hasattr(ctx, "url_detection_results")
                            THEN DetectedUrls(ctx.url_detection_results)
                            ELSE findall(b)
            body_kw      == KeywordHits(suspicious_keywords, b)
        IN  Ok([ subject |-> s,
                 subject_length |-> Len(s),
                 subject_uppercase_ratio |->
                     IF Len(s) > 0
                     THEN Ratio(Cardinality({ i \in 1..Len(s) : IsUpper(s[i]) }), Len(s))
                     ELSE Ratio(0, 1),
                 subject_has_suspicious_keywords |-> Len(subject_kw) > 0,
                 subject_suspicious_keywords |-> subject_kw,
                 subject_has_urls |-> Len(subject_urls) > 0,
                 subject_urls |-> subject_urls,
                 body_length |-> Len(b),
                 body_word_count |-> IF Len(b) > 0 THEN WordCount(b) ELSE 0,
                 body_has_urls |-> Len(body_urls) > 0,
                 body_urls |-> body_urls,
                 body_has_suspicious_keywords |-> Len(body_kw) > 0,
                 body_suspicious_keywords |-> body_kw,
                 body_has_html |->
                     \/ Contains(Lower(b), << "<", "h", "t", "m", "l" >>)
                     \/ Contains(Lower(b), << "<", "b", "o", "d", "y" >>)
                     \/ Contains(Lower(b), << "<", "d", "i", "v" >>),
                 body_has_images |->
                     \/ Contains(Lower(b), << "<", "i", "m", "g" >>)
                     \/ Contains(Lower(b), << "d", "a", "t", "a", ":", "i", "m", "a", "g", "e" >>) ])

\* name in headers: a key of a dict, an element of a list, a substring of a
\* str.
HeaderIn(name, chars, headers) ==
    CASE TypeOf(headers) = "dict" -> name \in DOMAIN Val(headers)
      [] TypeOf(headers) = "list" ->
            \E i \in 1..Len(Val(headers)) : Val(headers)[i] = PyStr(chars)
      [] TypeOf(headers) = "str" -> Contains(Val(headers), chars)
      [] OTHER -> FALSE

\* len(headers)
HeaderCount(headers) ==
    IF TypeOf(headers) = "dict" THEN Cardinality(DOMAIN Val(headers))
    ELSE Len(Val(headers))

\* dateutil's parser on the date strings of the model: the ISO-8601 form
\* YYYY-MM-DDTHH:MM:SS parses (and prints back unchanged), the rest raises.
date_parser_parse(s) ==
    IF /\ Len(s) = 19
       /\ \A i \in {1, 2, 3, 4, 6, 7, 9, 10, 12, 13, 15, 16, 18, 19} : IsDigit(s[i])
       /\ s[5] = "-" /\ s[8] = "-" /\ s[11] = "T" /\ s[14] = ":" /\ s[17] = ":"
    THEN Ok(s)
    ELSE Raise("ParserError")

_build_metadata(ctx, email) ==
    LET headers == OrDefault(email.headers, PyDict(EmptyDict))
        parsed  == IF Truthy(email.date) /\ TypeOf(email.date) = "str"
                   THEN date_parser_parse(Val(email.date))
                   ELSE Raise("TypeError")
    IN  \* len(headers) needs a sized value
        IF TypeOf(headers) \notin {"dict", "list", "str"} THEN Raise("TypeError")
        ELSE Ok([ date |-> email.date,
                  date_valid |-> Truthy(email.date) /\ IsOk(parsed),
                  headers |-> headers,
                  header_count |-> HeaderCount(headers),
                  has_message_id |->
                      \/ HeaderIn("Message-ID", 
                                 << "M", "e", "s", "s", "a", "g", "e", "-", "I", "D" >>, headers)
                      \/ HeaderIn("message-id", 
                                 << "m", "e", "s", "s", "a", "g", "e", "-", "i", "d" >>, headers),
                  has_return_path |->
                      \/ HeaderIn("Return-Path", 
                                 << "R", "e", "t", "u", "r", "n", "-", "P", "a", "t", "h" >>, headers)
                      \/ HeaderIn("return-path", 
                                 << "r", "e", "t", "u", "r", "n", "-", "p", "a", "t", "h" >>, headers),
                  has_received |->
                      \/ HeaderIn("Received", 
                                 << "R", "e", "c", "e", "i", "v", "e", "d" >>, headers)
                      \/ HeaderIn("received", 
                                 << "r", "e", "c", "e", "i", "v", "e", "d" >>, headers),
                  parsed_date |-> IF Truthy(email.date) /\ IsOk(parsed)
                                  THEN PyStr(Val(parsed)) ELSE PyNone ])

\* email.utils.parseaddr on the address forms of the model: "name <addr>"
\* gives <<name, addr>>, a string without angle brackets gives <<"", s>>.
FirstIndex(s, c) ==
    IF \E i \in 1..Len(s) : s[i] = c
    THEN CHOOSE i \in 1..Len(s) : s[i] = c /\ \A j \in 1..(i - 1) : s[j] # c
    ELSE 0
RECURSIVE RStrip(_)
RStrip(s) == IF Len(s) > 0 /\ s[Len(s)] = " " THEN RStrip(SubSeq(s, 1, Len(s) - 1)) ELSE s
parseaddr(s) ==
    LET lt == FirstIndex(s, "<")
        gt == FirstIndex(s, ">")
    IN  IF lt > 0 /\ gt > lt
        THEN << RStrip(SubSeq(s, 1, lt - 1)), SubSeq(s, lt + 1, gt - 1) >>
        ELSE << << >>, s >>

\* addr.split("@", 1): the parts before and after the first "@".
SplitFirst(s, c) ==
    << SubSeq(s, 1, FirstIndex(s, c) - 1), SubSeq(s, FirstIndex(s, c) + 1, Len(s)) >>

_build_sender(ctx, email) ==
    LET from_addr == OrDefault(email.from_, PyStr(<< >>))
        reply_to  == OrDefault(email.reply_to, PyStr(<< >>))
    IN  IF TypeOf(from_addr) # "str" THEN Raise("TypeError")
        ELSE
        LET name == parseaddr(Val(from_addr))[1]
            addr == parseaddr(Val(from_addr))[2]
            has_at == FirstIndex(addr, "@") > 0
        IN  Ok([ from_ |-> from_addr,
                 from_valid |->
                     IF Len(addr) > 0
                     THEN has_at /\ FirstIndex(Split(addr, "@")[2], ".") > 0
                     ELSE FALSE,
                 from_domain |-> IF has_at THEN PyStr(SplitFirst(addr, "@")[2])
                                 ELSE PyNone,
                 from_local_part |-> IF has_at THEN PyStr(SplitFirst(addr, "@")[1])
                                     ELSE PyNone,
                 reply_to |-> reply_to,
                 \* reply_to and reply_to != addr
                 reply_to_different |-> IF Truthy(reply_to)
                                        THEN PyBool(reply_to # PyStr(addr))
                                        ELSE reply_to,
                 has_display_name |-> Len(name) > 0,
                 display_name |-> IF Len(name) > 0 THEN PyStr(name) ELSE PyNone ])

\* The domains of the addresses that contain "@": addr.split("@")[1].
Domains(addrs) ==
    { Split(Val(addrs[i]), "@")[2] :
        i \in { j \in 1..Len(addrs) : FirstIndex(Val(addrs[j]), "@") > 0 } }

_build_recipient(ctx, email) ==
    LET to_addresses == IF Truthy(email.to) /\ TypeOf(email.to) = "str"
                        THEN << email.to >>
                        ELSE IF Truthy(email.to) /\ TypeOf(email.to) = "list"
                        THEN Val(email.to)
                        ELSE << >>
        cc  == OrDefault(email.cc, PyList(<< >>))
        bcc == OrDefault(email.bcc, PyList(<< >>))
    IN  \* len(cc) and the list concatenation need lists
        IF TypeOf(cc) # "list" \/ TypeOf(bcc) # "list" THEN Raise("TypeError")
        ELSE
        LET all_addresses == to_addresses \o Val(cc) \o Val(bcc)
        IN  \* "@" in addr needs a str
            IF \E i \in 1..Len(all_addresses) : TypeOf(all_addresses[i]) # "str"
            THEN Raise("TypeError")
            ELSE Ok([ to_count |-> Len(to_addresses),
                      to_addresses |-> to_addresses,
                      cc_count |-> Len(Val(cc)),
                      cc_addresses |-> Val(cc),
                      bcc_count |-> Len(Val(bcc)),
                      bcc_addresses |-> Val(bcc),
                      total_recipients |->
                          Len(to_addresses) + Len(Val(cc)) + Len(Val(bcc)),
                      unique_domains |-> Domains(all_addresses),
                      unique_domain_count |-> Cardinality(Domains(all_addresses)),
                      has_cc |-> Len(Val(cc)) > 0,
                      has_bcc |-> Len(Val(bcc)) > 0 ])

executable_exts == 
    { << ".", "e", "x", "e" >>,
      << ".", "b", "a", "t" >>,
      << ".", "c", "m", "d" >>,
      << ".", "c", "o", "m" >>,
      << ".", "s", "c", "r" >>,
      << ".", "m", "s", "i" >>,
      << ".", "d", "l", "l" >> }
script_exts == 
    { << ".", "j", "s" >>,
      << ".", "v", "b", "s" >>,
      << ".", "p", "s", "1" >>,
      << ".", "s", "h" >>,
      << ".", "p", "y" >>,
      << ".", "r", "b" >>,
      << ".", "p", "l" >> }
suspicious_exts == 
    { << ".", "z", "i", "p" >>,
      << ".", "r", "a", "r" >>,
      << ".", "7", "z" >>,
      << ".", "j", "a", "r" >>,
      << ".", "a", "p", "p" >>,
      << ".", "d", "e", "b" >>,
      << ".", "r", "p", "m" >> }

\* "." + filename.rsplit(".", 1)[1].lower(), or "" without a ".".
LastIndex(s, c) ==
    IF \E i \in 1..Len(s) : s[i] = c
    THEN CHOOSE i \in 1..Len(s) : s[i] = c /\ \A j \in (i + 1)..Len(s) : s[j] # c
    ELSE 0
Extension(filename) ==
    IF LastIndex(filename, ".") = 0 THEN << >>
    ELSE << "." >> \o Lower(SubSeq(filename, LastIndex(filename, ".") + 1, Len(filename)))

RECURSIVE SumSizes(_)
SumSizes(atts) == IF atts = << >> THEN 0 ELSE Val(Head(atts).size) + SumSizes(Tail(atts))

RECURSIVE ExtsIn(_, _)
ExtsIn(atts, exts) ==
    IF atts = << >> THEN << >>
    ELSE (IF Extension(Val(Head(atts).filename)) \in exts
          THEN << Extension(Val(Head(atts).filename)) >> ELSE << >>)
         \o ExtsIn(Tail(atts), exts)

_build_attachment(ctx, email) ==
    LET attachments == email.attachments
    IN  IF \E i \in 1..Len(attachments) :
              \/ TypeOf(attachments[i].size) # "int"
              \/ TypeOf(attachments[i].filename) # "str"
        THEN Raise("TypeError")
        ELSE Ok([ count |-> Len(attachments),
                  total_size |-> SumSizes(attachments),
                  files |-> [i \in 1..Len(attachments) |->
                               [ filename |-> attachments[i].filename,
                                 size |-> attachments[i].size,
                                 content_type |-> attachments[i].content_type,
                                 extension |-> Extension(Val(attachments[i].filename)) ]],
                  has_executables |-> Len(ExtsIn(attachments, executable_exts)) > 0,
                  has_scripts |-> Len(ExtsIn(attachments, script_exts)) > 0,
                  suspicious_extensions |-> ExtsIn(attachments, suspicious_exts),
                  executable_extensions |-> ExtsIn(attachments, executable_exts),
                  script_extensions |-> ExtsIn(attachments, script_exts) ])

\* [r for r in context.malware_detection_results if r.get("is_malicious", False)]
MaliciousAttachments(entries) ==
    { i \in 1..Len(entries) : entries[i].is_malicious }

\* The flags of _build_security, in the order the code appends them.
SecurityFlags(ctx) ==
    (IF hasattr(ctx, "email_body_is_phishing") /\ ctx.email_body_is_phishing
     THEN << "phishing_body" >> ELSE << >>)
    \o (IF hasattr(ctx, "sender_is_phishing") /\ ctx.sender_is_phishing
        THEN << "phishing_sender" >> ELSE << >>)
    \o (IF hasattr(ctx, "subject_is_phishing") /\ ctx.subject_is_phishing
        THEN << "phishing_subject" >> ELSE << >>)
    \o (IF hasattr(ctx, "is_fraud") /\ ctx.is_fraud
        THEN << "fraud" >> ELSE << >>)
    \o (IF hasattr(ctx, "malicious_url_count") /\ ctx.malicious_url_count > 0
        THEN << "malicious_urls" >> ELSE << >>)
    \o (IF /\ hasattr(ctx, "malware_detection_results")
           /\ MaliciousAttachments(ctx.malware_detection_results) # {}
        THEN << "malware" >> ELSE << >>)

\* The indicator appended with each flag; the two counted ones carry the count.
Indicator(flag, ctx) ==
    CASE flag = "phishing_body"    -> << "Phishing detected in email body" >>
      [] flag = "phishing_sender"  -> << "Phishing detected in sender" >>
      [] flag = "phishing_subject" -> << "Phishing detected in subject" >>
      [] flag = "fraud"            -> << "Fraud detected" >>
      [] flag = "malicious_urls"   ->
            << ctx.malicious_url_count, " malicious URL(s) detected" >>
      [] flag = "malware"          ->
            << Cardinality(MaliciousAttachments(ctx.malware_detection_results)),
               " malicious attachment(s) detected" >>

\* The risk level with "high" only above three flags.
RiskLevelAboveThree(nflags) ==
    IF nflags > 3 THEN "high"
    ELSE IF nflags >= 1 THEN "medium"
    ELSE "low"

RiskLevel(nflags) ==
    IF nflags >= 3 THEN "high"
    ELSE IF nflags >= 1 THEN "medium"
    ELSE "low"

_build_security(ctx) ==
    LET flags == SecurityFlags(ctx)
    IN  [ suspicious_indicators |-> [i \in 1..Len(flags) |-> Indicator(flags[i], ctx)],
          risk_level |-> RiskLevel(Len(flags)),
          flags |-> flags ]

\* int(x * weight) for a float x >= 0 held in tenths.
IntOf(x, weight) == (x * weight) \div One

Min(a, b) == IF a <= b THEN a ELSE b

\* The malware term without the break: every malicious result counts.
RECURSIVE EveryMaliciousPoints(_)
EveryMaliciousPoints(entries) ==
    IF entries = << >> THEN 0
    ELSE (IF Head(entries).is_malicious THEN (Head(entries).confidence * 20) \div One
          ELSE 0)
         + EveryMaliciousPoints(Tail(entries))

\* The malware term: the first result with is_malicious, then break.
RECURSIVE FirstMaliciousPoints(_)
FirstMaliciousPoints(entries) ==
    IF entries = << >> THEN 0
    ELSE IF Head(entries).is_malicious THEN IntOf(Head(entries).confidence, 20)
    ELSE FirstMaliciousPoints(Tail(entries))

ScoreSum(ctx) ==
      (IF hasattr(ctx, "email_body_phishing_score")
       THEN IntOf(ctx.email_body_phishing_score, 30) ELSE 0)
    + (IF hasattr(ctx, "sender_phishing_score")
       THEN IntOf(ctx.sender_phishing_score, 20) ELSE 0)
    + (IF hasattr(ctx, "subject_phishing_score")
       THEN IntOf(ctx.subject_phishing_score, 15) ELSE 0)
    + (IF hasattr(ctx, "fraud_score") THEN IntOf(ctx.fraud_score, 20) ELSE 0)
    + (IF hasattr(ctx, "malicious_url_count")
       THEN Min(ctx.malicious_url_count * 5, 15) ELSE 0)
    + (IF hasattr(ctx, "malware_detection_results")
       THEN FirstMaliciousPoints(ctx.malware_detection_results) ELSE 0)

\* The score without the cap.
Uncapped(score) == score

\* score = min(score, 100)
CapScore(score) == Min(score, 100)

_calculate_overall_score(ctx) == CapScore(ScoreSum(ctx))

\* ResponseBuilder.build(context): Ok(EmailAnalysisResponse), or the
\* exception of the first sub-builder that raises.  `now` is
\* datetime.now().isoformat().
build(ctx, email, now) ==
    LET metadata   == _build_metadata(ctx, email)
        content    == _build_content(ctx, email)
        sender     == _build_sender(ctx, email)
        recipient  == _build_recipient(ctx, email)
        attachment == _build_attachment(ctx, email)
    IN  IF IsRaise(metadata) THEN metadata
        ELSE IF IsRaise(content) THEN content
        ELSE IF IsRaise(sender) THEN sender
        ELSE IF IsRaise(recipient) THEN recipient
        ELSE IF IsRaise(attachment) THEN attachment
        ELSE Ok([ timestamp |-> now,
                  metadata |-> Val(metadata),
                  content_analysis |-> Val(content),
                  sender_analysis |-> Val(sender),
                  recipient_analysis |-> Val(recipient),
                  attachment_analysis |-> Val(attachment),
                  security_analysis |-> _build_security(ctx),
                  overall_score |-> _calculate_overall_score(ctx),
                  error |-> PyNone ])

(***************************************************************************)
(* Response models (models.py)                                             *)
(***************************************************************************)
\* dataclasses.asdict(obj) for a record without nested records.
asdict(obj) == PyDict([k \in DOMAIN obj |-> obj[k]])

\* SenderAnalysis.to_dict: asdict, with "from_" renamed to "from".
SenderAnalysis_to_dict(obj) ==
    PyDict([k \in (DOMAIN obj \ {"from_"}) \cup {"from"} |->
               IF k = "from" THEN obj.from_ ELSE obj[k]])

\* asdict(self.attachment_analysis): the AttachmentFileInfo records of
\* files become dicts too.
AttachmentAnalysis_asdict(obj) ==
    PyDict([k \in DOMAIN obj |->
               IF k = "files"
               THEN [i \in 1..Len(obj.files) |-> asdict(obj.files[i])]
               ELSE obj[k]])

\* EmailAnalysisResponse.to_dict
EmailAnalysisResponse_to_dict(r) ==
    LET result == [ timestamp |-> r.timestamp,
                    metadata |-> asdict(r.metadata),
                    content_analysis |-> asdict(r.content_analysis),
                    sender_analysis |-> SenderAnalysis_to_dict(r.sender_analysis),
                    recipient_analysis |-> asdict(r.recipient_analysis),
                    attachment_analysis |->
                        AttachmentAnalysis_asdict(r.attachment_analysis),
                    security_analysis |-> asdict(r.security_analysis),
                    overall_score |-> r.overall_score ]
    IN  IF Truthy(r.error)
        THEN PyDict([k \in DOMAIN result \cup {"error"} |->
                        IF k = "error" THEN r.error ELSE result[k]])
        ELSE PyDict(result)

\* EmailAnalysisResponse.from_dict(data); `now` is datetime.now().isoformat().
EmailAnalysisResponse_from_dict(d, now) ==
    LET empty == PyDict(EmptyDict)
        m == DictGet(d, "metadata", empty)
        c == DictGet(d, "content_analysis", empty)
        s == DictGet(d, "sender_analysis", empty)
        p == DictGet(d, "recipient_analysis", empty)
        a == DictGet(d, "attachment_analysis", empty)
        x == DictGet(d, "security_analysis", empty)
        fs == DictGet(a, "files", << >>)
    IN  [ timestamp |-> DictGet(d, "timestamp", now),
          metadata |->
            [ date |-> DictGet(m, "date", PyNone),
              date_valid |-> DictGet(m, "date_valid", FALSE),
              headers |-> DictGet(m, "headers", PyDict(EmptyDict)),
              header_count |-> DictGet(m, "header_count", 0),
              has_message_id |-> DictGet(m, "has_message_id", FALSE),
              has_return_path |-> DictGet(m, "has_return_path", FALSE),
              has_received |-> DictGet(m, "has_received", FALSE),
              parsed_date |-> DictGet(m, "parsed_date", PyNone) ],
          content_analysis |->
            [ subject |-> DictGet(c, "subject", << >>),
              subject_length |-> DictGet(c, "subject_length", 0),
              subject_uppercase_ratio |->
                  DictGet(c, "subject_uppercase_ratio", Ratio(0, 1)),
              subject_has_suspicious_keywords |->
                  DictGet(c, "subject_has_suspicious_keywords", FALSE),
              subject_suspicious_keywords |->
                  DictGet(c, "subject_suspicious_keywords", << >>),
              subject_has_urls |-> DictGet(c, "subject_has_urls", FALSE),
              subject_urls |-> DictGet(c, "subject_urls", << >>),
              body_length |-> DictGet(c, "body_length", 0),
              body_word_count |-> DictGet(c, "body_word_count", 0),
              body_has_urls |-> DictGet(c, "body_has_urls", FALSE),
              body_urls |-> DictGet(c, "body_urls", << >>),
              body_has_suspicious_keywords |->
                  DictGet(c, "body_has_suspicious_keywords", FALSE),
              body_suspicious_keywords |->
                  DictGet(c, "body_suspicious_keywords", << >>),
              body_has_html |-> DictGet(c, "body_has_html", FALSE),
              body_has_images |-> DictGet(c, "body_has_images", FALSE) ],
          sender_analysis |->
            [ from_ |-> DictGet(s, "from", PyStr(<< >>)),
              from_valid |-> DictGet(s, "from_valid", FALSE),
              from_domain |-> DictGet(s, "from_domain", PyNone),
              from_local_part |-> DictGet(s, "from_local_part", PyNone),
              reply_to |-> DictGet(s, "reply_to", PyStr(<< >>)),
              reply_to_different |-> DictGet(s, "reply_to_different", PyBool(FALSE)),
              has_display_name |-> DictGet(s, "has_display_name", FALSE),
              display_name |-> DictGet(s, "display_name", PyNone) ],
          recipient_analysis |->
            [ to_count |-> DictGet(p, "to_count", 0),
              to_addresses |-> DictGet(p, "to_addresses", << >>),
              cc_count |-> DictGet(p, "cc_count", 0),
              cc_addresses |-> DictGet(p, "cc_addresses", << >>),
              bcc_count |-> DictGet(p, "bcc_count", 0),
              bcc_addresses |-> DictGet(p, "bcc_addresses", << >>),
              total_recipients |-> DictGet(p, "total_recipients", 0),
              unique_domains |-> DictGet(p, "unique_domains", {}),
              unique_domain_count |-> DictGet(p, "unique_domain_count", 0),
              has_cc |-> DictGet(p, "has_cc", FALSE),
              has_bcc |-> DictGet(p, "has_bcc", FALSE) ],
          attachment_analysis |->
            [ count |-> DictGet(a, "count", 0),
              total_size |-> DictGet(a, "total_size", 0),
              files |-> [i \in 1..Len(fs) |->
                          [ filename |-> DictGet(fs[i], "filename", PyStr(<< >>)),
                            size |-> DictGet(fs[i], "size", PyInt(0)),
                            content_type |-> DictGet(fs[i], "content_type", PyStr(<< >>)),
                            extension |-> DictGet(fs[i], "extension", << >>) ]],
              has_executables |-> DictGet(a, "has_executables", FALSE),
              has_scripts |-> DictGet(a, "has_scripts", FALSE),
              suspicious_extensions |-> DictGet(a, "suspicious_extensions", << >>),
              executable_extensions |-> DictGet(a, "executable_extensions", << >>),
              script_extensions |-> DictGet(a, "script_extensions", << >>) ],
          security_analysis |->
            [ suspicious_indicators |-> DictGet(x, "suspicious_indicators", << >>),
              risk_level |-> DictGet(x, "risk_level", "low"),
              flags |-> DictGet(x, "flags", << >>) ],
          overall_score |-> DictGet(d, "overall_score", 0),
          error |-> DictGet(d, "error", PyNone) ]

\* ErrorResponse(error, message).to_dict(): message only when non-empty.
ErrorResponse(error, message) ==
    IF message # ""
    THEN PyDict([ error |-> error, message |-> message ])
    ELSE PyDict([ error |-> error ])

\* BatchAnalysisResponse(total, results).to_dict()
BatchAnalysisResponse(total, rs) ==
    PyDict([ total |-> total,
             results |-> [i \in 1..Len(rs) |-> EmailAnalysisResponse_to_dict(rs[i])] ])

(***************************************************************************)
(* Inputs of the model                                                     *)
(***************************************************************************)
\* Most emails in a batch request.
MaxEmails == 2
\* Most URLs in the body of an email handed to the validators directly.
MaxUrls == 4

Str(chars) == PyStr(chars)
Digit(i) == Ascii[i + 17]

\* What a text classifier can do on one call.
Res(label, kind, tenths) ==
    Ok(PyList(<< PyDict([ label |-> PyStr(label), score |-> PyFloat(kind, tenths) ]) >>))
l_benign == << "L", "A", "B", "E", "L", "_", "0" >>
l_phishing == << "P", "H", "I", "S", "H", "I", "N", "G" >>
l_malicious == << "M", "a", "l", "i", "c", "i", "o", "u", "s" >>
ClassifierOutputs ==
    { Raise("RuntimeError"),
      Ok(PyList(<< >>)),
      Res(l_benign, "nan", 0),
      Res(l_benign, "inf", 0),
      Res(l_benign, "num", -2),
      Res(l_phishing, "num", 3),
      Res(l_benign, "num", 9),
      Res(l_benign, "num", 17) }
UrlOutputs ==
    { Raise("RuntimeError"),
      Ok(PyList(<< >>)),
      Res(l_benign, "num", 2),
      Res(l_malicious, "num", 9) }
\* <<is_malicious, confidence>> of the malware classifier.
MalwareOutputs == { << FALSE, 9 >>, << TRUE, 5 >>, << TRUE, 10 >> }
\* The classifier outputs used when the validators are applied directly.
DirectOutputs == { Raise("RuntimeError"), Res(l_phishing, "num", 9) }
DirectUrlOutputs == { Res(l_benign, "num", 2), Res(l_malicious, "num", 9) }
DirectMalwareOutputs == { << FALSE, 9 >>, << TRUE, 7 >> }
\* datetime.now().isoformat()
Timestamps == { "2024-05-01T10:00:00", "2024-05-01T10:00:01" }

url_a == << "h", "t", "t", "p", ":", "/", "/", "a", ".", "i", "o" >>
url_b == << "h", "t", "t", "p", "s", ":", "/", "/", "b", ".", "i", "o", "/", "p", "?", "q", "=", "1" >>
body_full == << "p", "a", "y", " " >> \o url_b
body_urls == url_a \o << " " >> \o url_b \o << " " >> \o url_a

att_exe == PyDict([ filename |-> Str(<< "i", "n", "v", ".", "E", "X", "E" >>), size |-> PyInt(3),
                    content_type |-> Str(<< "x", "/", "y" >>), bytes |-> Str(<< "T", "V", "o", "=" >>) ])
att_js  == PyDict([ filename |-> Str(<< "r", "u", "n", ".", "j", "s" >>), size |-> PyInt(2),
                    content_type |-> Str(<< "x", "/", "y" >>), bytes |-> Str(<< "Q", "U", "I", "=" >>) ])
att_txt == PyDict([ filename |-> Str(<< "n", ".", "t", "x", "t" >>), size |-> PyInt(1),
                    content_type |-> Str(<< "x", "/", "y" >>) ])

p_full ==
    PyDict([ subject |-> Str(<< "U", "R", "G", "E", "N", "T", " ", "p", "r", "i", "z", "e" >>),
             body |-> Str(body_full),
             from |-> Str(<< "B", "o", "b", " ", "<", "b", "o", "b", "@", "x", ".", "i", "o", ">" >>),
             to |-> Str(<< "a", "@", "y", ".", "i", "o" >>),
             cc |-> PyList(<< Str(<< "c", "@", "y", ".", "i", "o" >>), Str(<< "d", "@", "z", ".", "i", "o" >>) >>),
             bcc |-> PyList(<< Str(<< "d", "@", "z", ".", "i", "o" >>) >>),
             reply_to |-> Str(<< "r", "@", "x", ".", "i", "o" >>),
             date |-> Str(<< "2", "0", "2", "4", "-", "0", "1", "-", "0", "1", "T", "1", "2", ":", "0", "0", ":", "0", "0" >>),
             attachments |-> PyList(<< att_exe, att_txt >>),
             headers |-> PyDict([ Received |-> Str(<< "m", "x" >>) ]) ])
p_min == PyDict([ subject |-> Str(<< "h", "i" >>), from |-> Str(<< "n", "o", "t", "-", "a", "n", "-", "e", "m", "a", "i", "l" >>) ])
\* a body that holds three URLs, two of them equal
p_urls == PyDict([ body |-> Str(body_urls) ])
\* cc is a string where a list is expected
p_cc_str == PyDict([ subject |-> Str(<< "h", "i" >>), cc |-> Str(<< "c", "@", "y", ".", "i", "o" >>) ])
\* attachments is a string where a list is expected
p_att_str == PyDict([ subject |-> Str(<< "h", "i" >>), attachments |-> Str(<< "n", ".", "t", "x", "t" >>) ])
\* an attachment is a string where an object is expected
p_att_elem == PyDict([ subject |-> Str(<< "h", "i" >>), attachments |-> PyList(<< Str(<< "n", ".", "t", "x", "t" >>) >>) ])
\* the payload is a list where an object is expected
p_list == PyList(<< Str(<< "h", "i" >>) >>)

\* n copies of a URL, separated by spaces.
RECURSIVE Copies(_)
Copies(n) == IF n = 0 THEN << >>
             ELSE IF n = 1 THEN url_a
             ELSE url_a \o << " " >> \o Copies(n - 1)
\* The email handed to the validators directly: n URLs, two attachments.
DirectPayload(n) ==
    PyDict([ subject |-> Str(<< "h", "i" >>),
             body |-> Str(Copies(n)),
             from |-> Str(<< "b", "@", "x", ".", "i", "o" >>),
             attachments |-> PyList(<< att_exe, att_js >>) ])

\* The payloads of POST /analyze.
AnalyzePayloads ==
    << PyNone, PyDict(EmptyDict), PyList(<< >>), PyInt(0), PyBool(FALSE), Str(<< >>),
       p_full, p_min, p_urls, p_cc_str, p_att_str, p_att_elem, p_list >>

\* The i-th email of a batch: a subject that names its position.
BatchEmail(i) == PyDict([ subject |-> Str(<< "m", Digit(i) >>) ])
BatchOf(n) == PyDict([ emails |-> PyList([i \in 1..n |-> BatchEmail(i)]) ])

\* The payloads of POST /analyze/batch.
BatchPayloads ==
    << PyNone, PyDict(EmptyDict),
       PyDict([ subject |-> Str(<< "h", "i" >>) ]),
       PyDict([ emails |-> Str(<< "h", "i" >>) ]),
       PyDict([ emails |-> PyList(<< BatchEmail(1), Str(<< "h", "i" >>) >>) ]),
       PyDict([ emails |-> PyList(<< BatchEmail(1), p_cc_str >>) ]),
       PyInt(5),
       PyList(<< BatchEmail(1) >>) >>
    \o [n \in 1..(MaxEmails + 1) |-> BatchOf(n - 1)]

(***************************************************************************)
(* HTTP API, production variant (backend/app.py)                           *)
(***************************************************************************)
\* The validator list of the application.
flow == << "Email", "Sender", "Subject", "MaliciousUrlDetector", "MalConvDetector" >>

\* Every validator of the repository, for runs that apply them directly.
AllValidators ==
    << "Email", "Sender", "Subject", "FraudDetection", "MaliciousUrlDetector",
       "MalConvDetector" >>

\* The four text validators, for runs that apply them directly.
TextValidators == << "Email", "Sender", "Subject", "FraudDetection" >>

\* The validator list of the run at hand (route "order": the list in the
\* order drawn for the run).
Pipeline ==
    CASE route = "validators" -> AllValidators
      [] route = "urls"       -> << "MaliciousUrlDetector" >>
      [] route = "verdict"    -> TextValidators
      [] route = "order"      -> wire.list
      [] OTHER                -> flow

\* The email under analysis.
Current == emails[idx]

\* 'emails' in data: Ok(bool), or the TypeError of a value without "in".
EmailsIn(d) ==
    CASE TypeOf(d) = "dict" -> Ok("emails" \in DOMAIN Val(d))
      [] TypeOf(d) = "list" ->
            Ok(\E i \in 1..Len(Val(d)) : Val(d)[i] = PyStr(<< "e", "m", "a", "i", "l", "s" >>))
      [] TypeOf(d) = "str"  -> Ok(Contains(Val(d), << "e", "m", "a", "i", "l", "s" >>))
      [] OTHER -> Raise("TypeError")

\* not data or not data.get('emails'): an empty list counts as missing.
MissingEmailsWhenFalsy(d) ==
    IF ~Truthy(d) THEN Ok(TRUE)
    ELSE IF IsRaise(EmailsIn(d)) THEN EmailsIn(d)
    ELSE Ok(\/ ~Val(EmailsIn(d))
            \/ TypeOf(d) = "dict" /\ ~Truthy(DictGet(d, "emails", PyNone)))

\* not data or 'emails' not in data
MissingEmails(d) ==
    IF ~Truthy(d) THEN Ok(TRUE)
    ELSE IF IsRaise(EmailsIn(d)) THEN EmailsIn(d)
    ELSE Ok(~Val(EmailsIn(d)))

\* results.insert(0, analysis_response)
PrependResult(rs, r) == << r >> \o rs

\* results.append(analysis_response)
AppendResult(rs, r) == Append(rs, r)

Answer(code, body) ==
    /\ status' = code
    /\ reply' = body
    /\ pc' = "done"

\* analyze_email, up to the creation of the context.
AnalyzeReceive ==
    /\ route = "analyze" /\ pc = "recv"
    /\ IF ~Truthy(data)
       THEN /\ Answer(400, ErrorResponse("No JSON data provided", ""))
            /\ UNCHANGED << emails, idx, vi, context >>
       ELSE LET parsed == EmailRequest_from_dict(data)
            IN  IF IsRaise(parsed)
                THEN /\ Answer(400, ErrorResponse("Invalid request format", Val(parsed)))
                     /\ UNCHANGED << emails, idx, vi, context >>
                ELSE /\ emails' = << Val(parsed) >>
                     /\ idx' = 1 /\ vi' = 1
                     /\ context' = Context
                     /\ pc' = "validate"
                     /\ UNCHANGED << status, reply >>
    /\ UNCHANGED << route, data, results, log, rec, wire, back >>

\* analyze_email_batch, up to the loop over the emails.
BatchReceive ==
    /\ route = "batch" /\ pc = "recv"
    /\ LET missing == MissingEmails(data)
       IN  IF IsRaise(missing)
           THEN /\ Answer(500, ErrorResponse("Internal server error", Val(missing)))
                /\ UNCHANGED << emails, idx, vi, context >>
           ELSE IF Val(missing)
           THEN /\ Answer(400, ErrorResponse("Missing 'emails' key in request", ""))
                /\ UNCHANGED << emails, idx, vi, context >>
           ELSE LET parsed == BatchEmailRequest_from_dict(data)
                IN  IF IsRaise(parsed)
                    THEN /\ Answer(400, ErrorResponse("Invalid request format",
                                                      Val(parsed)))
                         /\ UNCHANGED << emails, idx, vi, context >>
                    ELSE /\ emails' = Val(parsed)
                         /\ idx' = 1 /\ vi' = 1
                         /\ context' = Context
                         /\ pc' = IF Len(Val(parsed)) = 0 THEN "respond" ELSE "validate"
                         /\ UNCHANGED << status, reply >>
    /\ UNCHANGED << route, data, results, log, rec, wire, back >>

\* What the classifiers may answer in the run at hand.
\* On the routes "verdict" and "order" the answers are drawn with the run.
TextOutputs ==
    CASE route = "validators" -> DirectOutputs
      [] route = "verdict"    -> { wire }
      [] route = "order"      -> { wire.text[Pipeline[vi]] }
      [] OTHER                -> ClassifierOutputs
UrlClassifierOutputs ==
    CASE route = "validators" -> DirectUrlOutputs
      [] route = "order"      -> { wire.url }
      [] OTHER                -> UrlOutputs
MalwareClassifierOutputs ==
    CASE route = "validators" -> DirectMalwareOutputs
      [] route = "order"      -> { wire.malware }
      [] OTHER                -> MalwareOutputs

\* One pass of "for validator in flow: validator.validate(context)".
AtValidator(name) ==
    /\ pc = "validate"
    /\ vi <= Len(Pipeline)
    /\ Pipeline[vi] = name

\* `raised` tells whether the validator called its classifier and every call
\* raised.
Ran(name, raised) ==
    /\ vi' = vi + 1
    /\ log' = Append(log, << idx, name, raised >>)
    /\ UNCHANGED << route, data, pc, emails, idx, results, status, reply, rec, wire, back >>

RunEmail ==
    /\ AtValidator("Email")
    /\ \E out \in TextOutputs :
          /\ context' = Email_validate(context, Current, out)
          /\ Ran("Email", Truthy(Current.body) /\ IsRaise(out))

RunSender ==
    /\ AtValidator("Sender")
    /\ \E out \in TextOutputs :
          /\ context' = Sender_validate(context, Current, out)
          /\ Ran("Sender", Truthy(Current.from_) /\ IsRaise(out))

RunSubject ==
    /\ AtValidator("Subject")
    /\ \E out \in TextOutputs :
          /\ context' = Subject_validate(context, Current, out)
          /\ Ran("Subject", Truthy(Current.subject) /\ IsRaise(out))

RunFraudDetection ==
    /\ AtValidator("FraudDetection")
    /\ \E out \in TextOutputs :
          /\ context' = FraudDetection_validate(context, Current, out)
          /\ Ran("FraudDetection", Truthy(Current.body) /\ IsRaise(out))

\* The URLs the detector hands to its classifier for this email.
UrlsOf(req) ==
    IF Truthy(req.body) /\ TypeOf(req.body) = "str"
    THEN { truncated_url(findall(Val(req.body))[i]) :
             i \in 1..Len(findall(Val(req.body))) }
    ELSE {}

RunMaliciousUrlDetector ==
    /\ AtValidator("MaliciousUrlDetector")
    /\ \E f \in [UrlsOf(Current) -> UrlClassifierOutputs] :
          /\ context' = MaliciousUrlDetector_validate(context, Current, f)
          /\ Ran("MaliciousUrlDetector",
                 DOMAIN f # {} /\ \A u \in DOMAIN f : IsRaise(f[u]))

BytesOf(req) ==
    { req.attachments[i].bytes :
        i \in { j \in 1..Len(req.attachments) : req.attachments[j].bytes # PyNone } }

RunMalConvDetector ==
    /\ AtValidator("MalConvDetector")
    /\ \E g \in [BytesOf(Current) -> MalwareClassifierOutputs] :
          context' = MalConvDetector_validate(context, Current, g)
    /\ Ran("MalConvDetector", FALSE)

\* ResponseBuilder.build(context) and what the handler does with it.
BuildResponse ==
    /\ route \in {"analyze", "batch"}
    /\ pc = "validate" /\ vi > Len(Pipeline)
    /\ \E now \in Timestamps : \E r \in { build(context, Current, now) } :
            IF IsRaise(r)
            THEN /\ Answer(500, ErrorResponse("Internal server error", Val(r)))
                 /\ UNCHANGED << results, idx, vi, context >>
            ELSE IF route = "analyze"
            THEN /\ results' = << Val(r) >>
                 /\ Answer(200, EmailAnalysisResponse_to_dict(Val(r)))
                 /\ UNCHANGED << idx, vi, context >>
            ELSE /\ results' = AppendResult(results, Val(r))
                 /\ UNCHANGED << status, reply >>
                 /\ IF idx < Len(emails)
                    THEN /\ idx' = idx + 1 /\ vi' = 1
                         /\ context' = Context
                         /\ pc' = "validate"
                    ELSE /\ pc' = "respond"
                         /\ UNCHANGED << idx, vi, context >>
    /\ log' = Append(log, << idx, "build", FALSE >>)
    /\ UNCHANGED << route, data, emails, rec, wire, back >>

\* The end of analyze_email_batch.
BatchRespond ==
    /\ route = "batch" /\ pc = "respond"
    /\ Answer(200, BatchAnalysisResponse(Len(results), results))
    /\ UNCHANGED << route, data, emails, idx, vi, context, results, log, rec, wire, back >>

Init ==
    /\ \/ /\ route = "analyze"
          /\ \E i \in 1..Len(AnalyzePayloads) : data = AnalyzePayloads[i]
       \/ /\ route = "batch"
          /\ \E i \in 1..Len(BatchPayloads) : data = BatchPayloads[i]
    /\ pc = "recv"
    /\ emails = << >>
    /\ idx = 0 /\ vi = 0
    /\ context = Context
    /\ results = << >>
    /\ status = 0
    /\ reply = PyNone
    /\ log = << >>
    /\ rec = PyNone /\ wire = PyNone /\ back = PyNone

Next ==
    \/ AnalyzeReceive
    \/ BatchReceive
    \/ RunEmail
    \/ RunSender
    \/ RunSubject
    \/ RunMaliciousUrlDetector
    \/ RunMalConvDetector
    \/ BuildResponse
    \/ BatchRespond

Spec == Init /\ [][Next]_vars

(***************************************************************************)
(* The validators and the Response Builder applied directly: any subset    *)
(* of the validators, in the order of the list, then build.                *)
(***************************************************************************)
SkipValidator ==
    /\ route \in {"validators", "urls"}
    /\ pc = "validate" /\ vi <= Len(Pipeline)
    /\ vi' = vi + 1
    /\ UNCHANGED << route, data, pc, emails, idx, context, results, status, reply, log,
                    rec, wire, back >>

BuildDirect ==
    /\ route \in {"validators", "urls", "order"}
    /\ pc = "validate" /\ vi > Len(Pipeline)
    /\ \E now \in Timestamps : \E r \in { build(context, Current, now) } :
          IF IsRaise(r)
          THEN reply' = r /\ UNCHANGED results
          ELSE results' = << Val(r) >> /\ UNCHANGED reply
    /\ pc' = "done"
    /\ log' = Append(log, << idx, "build", FALSE >>)
    /\ UNCHANGED << route, data, emails, idx, vi, context, status, rec, wire, back >>

InitBuilder ==
    /\ route = "validators"
    /\ \E n \in 0..MaxUrls : data = DirectPayload(n)
    /\ pc = "validate"
    /\ emails = << Val(EmailRequest_from_dict(data)) >>
    /\ idx = 1 /\ vi = 1
    /\ context = Context
    /\ results = << >>
    /\ status = 0
    /\ reply = PyNone
    /\ log = << >>
    /\ rec = PyNone /\ wire = PyNone /\ back = PyNone

NextBuilder ==
    \/ RunEmail
    \/ RunSender
    \/ RunSubject
    \/ RunFraudDetection
    \/ RunMaliciousUrlDetector
    \/ RunMalConvDetector
    \/ SkipValidator
    \/ BuildDirect

SpecBuilder == InitBuilder /\ [][NextBuilder]_vars

(***************************************************************************)
(* The data models on their own: EmailRequest.from_dict on payloads that   *)
(* lack optional keys, and EmailAnalysisResponse.to_dict / from_dict.      *)
(***************************************************************************)
RequestKeys ==
    { "subject", "body", "from", "to", "cc", "bcc", "reply_to", "date",
      "attachments", "headers" }
AttachmentKeys == { "filename", "size", "content_type", "bytes" }

\* A dict without the keys outside `keys`.
Restrict(d, keys) == PyDict([k \in DOMAIN Val(d) \cap keys |-> Val(d)[k]])

\* The full payload without the keys outside K, its attachments without
\* the keys outside A.
PartialPayload(K, A) ==
    PyDict([k \in RequestKeys \cap K |->
               IF k = "attachments"
               THEN PyList([i \in 1..Len(Val(Val(p_full)[k])) |->
                               Restrict(Val(Val(p_full)[k])[i], A)])
               ELSE Val(p_full)[k]])

\* Contexts as the validators leave them, and the responses built from them.
full_request == Val(EmailRequest_from_dict(p_full))
full_context ==
    MalConvDetector_validate(
        MaliciousUrlDetector_validate(
            Subject_validate(
                Sender_validate(
                    Email_validate(Context, full_request, Res(l_phishing, "num", 9)),
                    full_request, Res(l_benign, "num", 3)),
                full_request, Raise("RuntimeError")),
            full_request, [u \in UrlsOf(full_request) |-> Res(l_malicious, "num", 9)]),
        full_request, [b \in BytesOf(full_request) |-> << TRUE, 5 >>])
min_request == Val(EmailRequest_from_dict(p_min))
BuiltResponses ==
    { Val(build(full_context, full_request, now)) : now \in Timestamps }
    \cup { Val(build(Context, min_request, now)) : now \in Timestamps }

\* The values of EmailAnalysisResponse.error: None, "" and a message.
ResponseErrors == { PyNone, PyStr(<< >>), PyStr(<< "b", "o", "o", "m" >>) }

\* EmailRequest.from_dict(data)
ParseRequest ==
    /\ route = "from_dict" /\ pc = "recv"
    /\ rec' = EmailRequest_from_dict(data)
    /\ pc' = "done"
    /\ UNCHANGED << route, data, emails, idx, vi, context, results, status, reply, log,
                    wire, back >>

\* r.to_dict()
ToDict ==
    /\ route = "round_trip" /\ pc = "to_dict"
    /\ wire' = EmailAnalysisResponse_to_dict(rec)
    /\ pc' = "from_dict"
    /\ UNCHANGED << route, data, emails, idx, vi, context, results, status, reply, log,
                    rec, back >>

\* EmailAnalysisResponse.from_dict(d)
FromDict ==
    /\ route = "round_trip" /\ pc = "from_dict"
    /\ \E now \in Timestamps : back' = EmailAnalysisResponse_from_dict(wire, now)
    /\ pc' = "done"
    /\ UNCHANGED << route, data, emails, idx, vi, context, results, status, reply, log,
                    rec, wire >>

InitModels ==
    /\ \/ /\ route = "from_dict"
          /\ pc = "recv"
          /\ \E K \in SUBSET RequestKeys :
               \E A \in IF "attachments" \in K THEN SUBSET AttachmentKeys
                        ELSE { AttachmentKeys } :
                  data = PartialPayload(K, A)
          /\ rec = PyNone
       \/ /\ route = "round_trip"
          /\ pc = "to_dict"
          /\ data = PyNone
          /\ \E r \in BuiltResponses : \E e \in ResponseErrors :
               rec = [r EXCEPT !.error = e]
    /\ emails = << >>
    /\ idx = 0 /\ vi = 0
    /\ context = Context
    /\ results = << >>
    /\ status = 0
    /\ reply = PyNone
    /\ log = << >>
    /\ wire = PyNone /\ back = PyNone

NextModels ==
    \/ ParseRequest
    \/ ToDict
    \/ FromDict

SpecModels == InitModels /\ [][NextModels]_vars

(***************************************************************************)
(* Properties of the Response Builder (checked under SpecBuilder)          *)
(***************************************************************************)
\* A response has been built from `context` by a direct run.
Built == route = "validators" /\ pc = "done" /\ results # << >>

\* floor(context.field * weight), 0 when the field is absent.
ClaimedTerm(field, weight) ==
    IF field \in DOMAIN context THEN (context[field] * weight) \div One ELSE 0

ClaimedUrlTerm ==
    IF "malicious_url_count" \in DOMAIN context
    THEN (IF context.malicious_url_count * 5 < 15
          THEN context.malicious_url_count * 5 ELSE 15)
    ELSE 0

ClaimedMalwareTerm ==
    IF "malware_detection_results" \notin DOMAIN context THEN 0
    ELSE LET m == context.malware_detection_results
             hits == { i \in 1..Len(m) : m[i].is_malicious }
         IN  IF hits = {} THEN 0
             ELSE LET first == CHOOSE i \in hits : \A j \in hits : i <= j
                  IN  (m[first].confidence * 20) \div One

ClaimedSum ==
    ClaimedTerm("email_body_phishing_score", 30)
    + ClaimedTerm("sender_phishing_score", 20)
    + ClaimedTerm("subject_phishing_score", 15)
    + ClaimedTerm("fraud_score", 20)
    + ClaimedUrlTerm
    + ClaimedMalwareTerm

\* C1: the overall score of a built response is floor(body*30) +
\* floor(sender*20) + floor(subject*15) + floor(fraud*20) +
\* min(malicious_url_count*5, 15) + floor(confidence*20) of the first
\* malicious attachment result, absent fields counting 0, capped at 100.
C1_OverallScoreFormula ==
    Built => results[1].overall_score = (IF ClaimedSum < 100 THEN ClaimedSum ELSE 100)

\* The example of the claim: body score 0.9, the other scores 0.0, four
\* malicious URLs, no malicious attachment: 42.
C1_Example42 ==
    /\ Built
    /\ DOMAIN context =
         { "email_body_phishing_score", "email_body_is_phishing",
           "sender_phishing_score", "sender_is_phishing",
           "subject_phishing_score", "subject_is_phishing",
           "fraud_score", "is_fraud",
           "url_detection_results", "malicious_url_count",
           "malware_detection_results" }
    /\ context.email_body_phishing_score = 9
    /\ context.sender_phishing_score = 0
    /\ context.subject_phishing_score = 0
    /\ context.fraud_score = 0
    /\ context.malicious_url_count = 4
    /\ Len(context.malware_detection_results) = 2
    /\ \A i \in 1..2 : ~context.malware_detection_results[i].is_malicious
    /\ results[1].overall_score = 42

\* C2: the overall score of every built response, whatever subset of the
\* validators ran, is an integer from 0 to 100.
C2_OverallScoreRange ==
    Built => results[1].overall_score \in 0..100

\* A built response whose terms add up to more than 100.
C2_Capped ==
    /\ Built
    /\ ClaimedSum > 100
    /\ results[1].overall_score = 100

\* The flags the claim expects on the context at hand.
ClaimedFlags ==
    { f \in { "phishing_body", "phishing_sender", "phishing_subject", "fraud",
              "malicious_urls", "malware" } :
        CASE f = "phishing_body" ->
                "email_body_is_phishing" \in DOMAIN context /\ context.email_body_is_phishing
          [] f = "phishing_sender" ->
                "sender_is_phishing" \in DOMAIN context /\ context.sender_is_phishing
          [] f = "phishing_subject" ->
                "subject_is_phishing" \in DOMAIN context /\ context.subject_is_phishing
          [] f = "fraud" -> "is_fraud" \in DOMAIN context /\ context.is_fraud
          [] f = "malicious_urls" ->
                "malicious_url_count" \in DOMAIN context /\ context.malicious_url_count > 0
          [] f = "malware" ->
                /\ "malware_detection_results" \in DOMAIN context
                /\ \E i \in 1..Len(context.malware_detection_results) :
                      context.malware_detection_results[i].is_malicious }

\* C3: risk_level is "high" with three or more flags, "medium" with one or
\* two, "low" with none, whichever flags they are; a flag is set exactly
\* when its verdict on the context is true.
C3_RiskLevelByFlagCount ==
    Built =>
        LET sec == results[1].security_analysis
        IN  /\ { sec.flags[i] : i \in 1..Len(sec.flags) } = ClaimedFlags
            /\ Len(sec.flags) = Cardinality(ClaimedFlags)
            /\ sec.risk_level =
                 (IF Cardinality(ClaimedFlags) >= 3 THEN "high"
                  ELSE IF Cardinality(ClaimedFlags) >= 1 THEN "medium"
                  ELSE "low")

\* A built response with exactly three flags, none of them a phishing one.
C3_ThreeFlagsHigh ==
    /\ Built
    /\ ClaimedFlags = { "fraud", "malicious_urls", "malware" }
    /\ results[1].security_analysis.risk_level = "high"

(***************************************************************************)
(* Properties of the HTTP API (checked under Spec)                         *)
(***************************************************************************)
\* The handler is past parsing and works on emails[idx].
Serving == route \in { "analyze", "batch" } /\ idx \in 1..Len(emails)

\* The validator `name` ran on the current email, and every call of its
\* classifier raised.
RaisedOn(name) == \E k \in 1..Len(log) : log[k] = << idx, name, TRUE >>

\* The classifier of some validator raised on some email of the request.
AnyRaised == \E k \in 1..Len(log) : log[k][3]

\* Every validator of the list ran on email i.
RanAll(i) ==
    \A v \in 1..Len(flow) : \E k \in 1..Len(log) : log[k][1] = i /\ log[k][2] = flow[v]

\* The score and the verdict a text validator leaves are 0.0 and false.
Neutral(scoreAttr, verdictAttr) ==
    /\ scoreAttr \in DOMAIN context /\ context[scoreAttr] = 0
    /\ verdictAttr \in DOMAIN context /\ context[verdictAttr] = FALSE

TextValidatorsNeutral ==
    /\ RaisedOn("Email") => Neutral("email_body_phishing_score", "email_body_is_phishing")
    /\ RaisedOn("Sender") => Neutral("sender_phishing_score", "sender_is_phishing")
    /\ RaisedOn("Subject") => Neutral("subject_phishing_score", "subject_is_phishing")

UrlEntriesNeutral ==
    LET found == findall(Val(Current.body))
        got   == context.url_detection_results
    IN  /\ Len(got) = Len(found)
        /\ \A i \in 1..Len(got) :
              /\ DOMAIN got[i] = { "url", "is_malicious", "score", "error" }
              /\ got[i].url = found[i]
              /\ got[i].is_malicious = FALSE
              /\ got[i].score = 0

C5_AllSixValidatorsOnce ==
    Serving =>
        \A k \in 1..Len(log) :
            log[k][2] = "build" =>
                /\ \A v \in 1..Len(AllValidators) :
                      Cardinality({ j \in 1..(k - 1) :
                                      /\ log[j][1] = log[k][1]
                                      /\ log[j][2] = AllValidators[v] }) = 1
                /\ log[k][1] = idx =>
                      { "fraud_score", "is_fraud" } \subseteq DOMAIN context

\* The body of a 400 answer with this error and no message.
ErrorOnly(error) == PyDict([ error |-> error ])

LacksEmailsKey == TypeOf(data) = "dict" /\ "emails" \notin DOMAIN Val(data)
EmptyEmailsList ==
    /\ TypeOf(data) = "dict" /\ "emails" \in DOMAIN Val(data)
    /\ TypeOf(Val(data)["emails"]) = "list" /\ Val(Val(data)["emails"]) = << >>

MalformedEmail(d) ==
    /\ TypeOf(d) = "dict"
    /\ \/ \E k \in { "cc", "bcc", "attachments" } \cap DOMAIN Val(d) :
             TypeOf(Val(d)[k]) # "list"
       \/ /\ "attachments" \in DOMAIN Val(d)
          /\ TypeOf(Val(d)["attachments"]) = "list"
          /\ \E i \in 1..Len(Val(Val(d)["attachments"])) :
                TypeOf(Val(Val(d)["attachments"])[i]) # "dict"

\* The JSON object of the request has a malformed shape.
Malformed ==
    /\ TypeOf(data) = "dict"
    /\ \/ route = "analyze" /\ MalformedEmail(data)
       \/ /\ route = "batch"
          /\ "emails" \in DOMAIN Val(data)
          /\ \/ TypeOf(Val(data)["emails"]) # "list"
             \/ \E i \in 1..Len(Val(Val(data)["emails"])) :
                   \/ TypeOf(Val(Val(data)["emails"])[i]) # "dict"
                   \/ MalformedEmail(Val(Val(data)["emails"])[i])

\* C7 as stated: a payload of malformed shape is answered 400 {error:
\* "Invalid request format", message}; it reaches neither the validators
\* nor the Response Builder, and is never answered 500.
C7_MalformedShapeIs400 ==
    Malformed =>
        /\ log = << >>
        /\ pc = "done" =>
              /\ status = 400
              /\ Val(reply)["error"] = "Invalid request format"

\* C8: a batch of N emails is analysed one email after another in the
\* submitted order, email i+1 starting only after the response of email i is
\* built; the answer has total = N = the number of results, and results[i]
\* is the analysis of emails[i].
C8_BatchSequential ==
    route = "batch" =>
        /\ \A j, k \in 1..Len(log) : j < k => log[j][1] <= log[k][1]
        /\ \A k \in 1..Len(log) :
              log[k][1] > 1 =>
                  \E j \in 1..(k - 1) : log[j] = << log[k][1] - 1, "build", FALSE >>
        /\ \A i \in 1..Len(results) :
              results[i].content_analysis.subject = Val(emails[i].subject)
        /\ (pc = "done" /\ status = 200) =>
              /\ Val(reply).total = Len(emails)
              /\ Len(Val(reply).results) = Len(emails)
              /\ \A i \in 1..Len(emails) :
                    /\ RanAll(i)
                    /\ Val(Val(Val(reply).results[i]).content_analysis).subject
                         = Val(emails[i].subject)

\* A batch of two emails answered 200.
C8_TwoEmailsAnswered ==
    /\ route = "batch" /\ pc = "done" /\ status = 200
    /\ Len(emails) = 2
    /\ Val(reply).total = 2

(***************************************************************************)
(* Properties of the data models (checked under SpecModels)                *)
(***************************************************************************)
\* The value the record must hold for key k: the payload's, or the default.
Expected(d, k, default) == IF k \in DOMAIN Val(d) THEN Val(d)[k] ELSE default

\* C9: on a payload that lacks any subset of the optional keys (attachment
\* entries lacking keys included) EmailRequest.from_dict does not raise;
\* absent string fields are None, cc, bcc and attachments are empty lists,
\* headers is an empty map, and an attachment's filename, size and
\* content_type default to "", 0 and "".
C9_FromDictDefaults ==
    (route = "from_dict" /\ pc = "done") =>
        /\ IsOk(rec)
        /\ LET r == Val(rec)
               atts == IF "attachments" \in DOMAIN Val(data)
                       THEN Val(Val(data)["attachments"]) ELSE << >>
           IN  /\ r.subject = Expected(data, "subject", PyNone)
               /\ r.body = Expected(data, "body", PyNone)
               /\ r.from_ = Expected(data, "from", PyNone)
               /\ r.to = Expected(data, "to", PyNone)
               /\ r.reply_to = Expected(data, "reply_to", PyNone)
               /\ r.date = Expected(data, "date", PyNone)
               /\ r.cc = Expected(data, "cc", PyList(<< >>))
               /\ r.bcc = Expected(data, "bcc", PyList(<< >>))
               /\ r.headers = Expected(data, "headers", PyDict(EmptyDict))
               /\ Len(r.attachments) = Len(atts)
               /\ \A i \in 1..Len(atts) :
                     /\ r.attachments[i].filename
                          = Expected(atts[i], "filename", PyStr(<< >>))
                     /\ r.attachments[i].size = Expected(atts[i], "size", PyInt(0))
                     /\ r.attachments[i].content_type
                          = Expected(atts[i], "content_type", PyStr(<< >>))
                     /\ r.attachments[i].bytes = Expected(atts[i], "bytes", PyNone)

\* A payload with nothing but attachments that have no key at all, parsed.
C9_BareAttachmentsParsed ==
    /\ route = "from_dict" /\ pc = "done"
    /\ DOMAIN Val(data) = { "attachments" }
    /\ Len(Val(rec).attachments) = 2
    /\ \A i \in 1..2 : DOMAIN Val(Val(Val(data)["attachments"])[i]) = {}
    /\ Val(rec).attachments[1].size = PyInt(0)
    /\ Val(rec).cc = PyList(<< >>)

\* C10 as stated: from_dict(r.to_dict()) reproduces every field of r, and
\* r.to_dict() has the key 'error' exactly when r was constructed with an
\* error.
C10_RoundTrip ==
    (route = "round_trip" /\ pc = "done") =>
        /\ back = rec
        /\ "error" \in DOMAIN Val(wire) <=> rec.error # PyNone

\* The round trip of the responses whose error is None or a non-empty str.
RoundTripWithTruthyError ==
    (route = "round_trip" /\ pc = "done" /\ rec.error # PyStr(<< >>)) =>
        /\ back = rec
        /\ "error" \in DOMAIN Val(wire) <=> rec.error # PyNone

(***************************************************************************)
(* The operations applied directly to inputs drawn from bounded sets:      *)
(* the URL detector and the content analysis on body texts (route "urls"). *)
(***************************************************************************)
\* Most pieces in a body text.
MaxBodyPieces == 3

\* The pieces body texts are made of: two URLs, a scheme without a host, a
\* letter, a space and a character the pattern does not accept.
BodyPieces ==
    { << "h", "t", "t", "p", ":", "/", "/", "a" >>,
      << "h", "t", "t", "p", "s", ":", "/", "/", "B", ".", "c" >>,
      << "h", "t", "t", "p", ":", "/", "/" >>,
      << "x" >>, << " " >>, << "#" >> }

RECURSIVE TextsOf(_, _)
TextsOf(pieces, n) ==
    IF n = 0 THEN { << >> }
    ELSE TextsOf(pieces, n - 1)
         \cup { t \o p : t \in TextsOf(pieces, n - 1), p \in pieces }

\* "visit http://EXAMPLE.com/a now"
body_example ==
    << "v", "i", "s", "i", "t", " ", "h", "t", "t", "p", ":", "/", "/", "E", "X", "A",
       "M", "P", "L", "E", ".", "c", "o", "m", "/", "a", " ", "n", "o", "w" >>

\* The values of the body field: texts, an absent body, a number.
UrlBodies ==
    { PyStr(b) : b \in TextsOf(BodyPieces, MaxBodyPieces) \cup { body_example, body_urls } }
    \cup { PyNone, PyInt(5) }

\* The values of the from field: local@domain with a plain or a quoted
\* local part, texts without "@", "name <address>", and an absent from.
FromLocals ==
    { << "u", "s", "e", "r" >>, << "a", ".", "b" >>,
      << "\"", "a", "@", "b", "\"" >>, << "\"", "a", "@", "b", ".", "c", "\"" >> }
FromDomains ==
    { << "x" >>, << "x", ".", "i", "o" >>,
      << "s", "u", "b", ".", "e", "x", "a", "m", "p", "l", "e", ".", "c", "o", "m" >>,
      << "." >>, << "x", "." >> }
FromAddresses ==
    { l \o << "@" >> \o d : l \in FromLocals, d \in FromDomains }
    \cup { << "n", "o", "t", "-", "a", "n", "-", "e", "m", "a", "i", "l" >>, << "x", ".", "i", "o" >> }
FromValues ==
    { PyStr(a) : a \in FromAddresses }
    \cup { PyStr(<< "B", "o", "b", " ", "<" >> \o a \o << ">" >>) : a \in FromAddresses }
    \cup { PyStr(<< >>), PyNone }

\* The values of the reply_to field: absent, empty, the address of some of
\* the from values, and another address.
ReplyToValues ==
    { PyNone, PyStr(<< >>),
      PyStr(<< "u", "s", "e", "r", "@", "x", ".", "i", "o" >>),
      PyStr(<< "r", "@", "y", ".", "i", "o" >>) }

\* The addresses of the to, cc and bcc fields: three plain ones (two on the
\* same domain), a text without "@" and an address with two "@".
RecipientAddresses ==
    { PyStr(<< "a", "@", "y", ".", "i", "o" >>), PyStr(<< "b", "@", "y", ".", "i", "o" >>),
      PyStr(<< "c", "@", "z", ".", "i", "o" >>), PyStr(<< "n", "o", "a", "t" >>),
      PyStr(<< "a", "@", "b", "@", "c", ".", "d" >>) }
\* The lists of at most one address, and of two.
ShortLists == { PyList(<< >>) } \cup { PyList(<< a >>) : a \in RecipientAddresses }
PairLists == { PyList(<< a, b >>) : a, b \in RecipientAddresses }
\* The values of the to field: absent, one address as a string, a list.
ToValues == { PyNone } \cup RecipientAddresses \cup ShortLists \cup PairLists

(***************************************************************************)
(* Evaluation harness (e2e/main.py): DatasetLoader._normalize_label        *)
(***************************************************************************)
\* str.strip(): without the spaces at both ends.
RECURSIVE LStrip(_)
LStrip(s) == IF Len(s) > 0 /\ s[1] = " " THEN LStrip(Tail(s)) ELSE s
Strip(s) == LStrip(RStrip(s))

\* int(x) of a float: towards zero; NaN and the infinities raise.
IntOfFloat(x) ==
    IF x[2] = "nan" THEN Raise("ValueError")
    ELSE IF x[2] # "num" THEN Raise("OverflowError")
    ELSE IF x[3] >= 0 THEN Ok(x[3] \div One)
    ELSE Ok(0 - ((0 - x[3]) \div One))

spam_labels ==
    { << "1" >>,
      << "t", "r", "u", "e" >>,
      << "y", "e", "s" >>,
      << "s", "p", "a", "m" >>,
      << "p", "h", "i", "s", "h", "i", "n", "g" >>,
      << "m", "a", "l", "i", "c", "i", "o", "u", "s" >>,
      << "b", "a", "d" >> }
ham_labels ==
    { << "0" >>,
      << "f", "a", "l", "s", "e" >>,
      << "n", "o" >>,
      << "h", "a", "m" >>,
      << "l", "e", "g", "i", "t", "i", "m", "a", "t", "e" >>,
      << "b", "e", "n", "i", "g", "n" >>,
      << "g", "o", "o", "d" >>,
      << "s", "a", "f", "e" >> }

\* _normalize_label(label): Ok(0 or 1), or the exception it raises.
_normalize_label(label) ==
    CASE TypeOf(label) = "bool" -> Ok(IF Val(label) THEN 1 ELSE 0)
      [] TypeOf(label) = "int" ->
            Ok(IF Val(label) = 1 \/ Val(label) > 0 THEN 1 ELSE 0)
      [] TypeOf(label) = "float" ->
            LET n == IntOfFloat(label)
            IN  IF IsRaise(n) THEN n
                ELSE Ok(IF Val(n) = 1 \/ Val(n) > 0 THEN 1 ELSE 0)
      [] TypeOf(label) = "str" ->
            LET label_lower == Strip(Lower(Val(label)))
            IN  IF label_lower \in spam_labels THEN Ok(1)
                ELSE IF label_lower \in ham_labels THEN Ok(0)
                ELSE Ok(0)
      [] OTHER -> Ok(0)

\* The labels of dataset rows: booleans, integers, floats (a float read
\* from an empty cell is NaN), the known words in three spellings, other
\* words, and values of other types.
Capitalized(w) == << Ascii[Ord(Head(w)) - 32 - 31] >> \o Tail(w)
LabelWords == spam_labels \cup ham_labels \cup { << "u", "n", "k", "n", "o", "w", "n" >>, << >>, << " " >> }
LabelValues ==
    { PyBool(TRUE), PyBool(FALSE), PyList(<< >>), PyDict(EmptyDict) }
    \cup { PyInt(n) : n \in -2..3 }
    \cup { PyFloat("num", x) : x \in { -15, -5, 0, 5, 10, 15, 25 } }
    \cup { PyFloat("nan", 0), PyFloat("inf", 0), PyFloat("-inf", 0) }
    \cup { PyStr(w) : w \in LabelWords }
    \cup { PyStr(<< " " >> \o w \o << " ", " " >>) : w \in LabelWords }
    \cup { PyStr(Capitalized(w)) :
             w \in { v \in LabelWords : Len(v) > 0 /\ IsLowerLetter(Head(v)) } }
    \cup { PyStr(<< "S", "P", "A", "M" >>), PyStr(<< "H", "a", "m" >>), PyStr(<< "s", "p", "a", "m", " ", "m", "a", "i", "l" >>) }

\* DatasetLoader._normalize_label(label_val) on its own.
NormalizeLabel ==
    /\ route = "label" /\ pc = "normalize"
    /\ rec' = _normalize_label(data)
    /\ pc' = "done"
    /\ UNCHANGED << route, data, emails, idx, vi, context, results, status, reply, log,
                    wire, back >>

\* Most characters in a text handed to _truncate_text.
MaxText == 7
\* The token limits tried: the limit is the tokenizer's model_max_length,
\* whatever it is (3 characters are allowed per token).
TokenLimits == { 1, 2 }
TruncateTexts == TextsOf({ << "a" >>, << "-" >>, << " " >> }, MaxText)

\* self._truncate_text(text, self.max_length) on its own.
Truncate ==
    /\ route = "truncate" /\ pc = "truncate"
    /\ rec' = _truncate_text(Val(data).text, Val(Val(data).max_tokens))
    /\ pc' = "done"
    /\ UNCHANGED << route, data, emails, idx, vi, context, results, status, reply, log,
                    wire, back >>

\* ResponseBuilder._build_sender(context) on its own.
BuildSender ==
    /\ route = "sender" /\ pc = "build"
    /\ rec' = _build_sender(context, Current)
    /\ pc' = "done"
    /\ UNCHANGED << route, data, emails, idx, vi, context, results, status, reply, log,
                    wire, back >>

\* What a text classifier answers on the route "verdict": every label of
\* VerdictLabels with every score of VerdictScores, an empty answer, or an
\* exception.
l_fraud == << "F", "r", "a", "u", "d" >>
VerdictLabels == { l_benign, l_phishing, l_malicious, l_fraud }
VerdictScores ==
    { PyFloat("nan", 0), PyFloat("inf", 0), PyFloat("num", -2), PyFloat("num", 0),
      PyFloat("num", 5), PyFloat("num", 6), PyFloat("num", One), PyFloat("num", 17) }
VerdictOutputs ==
    { Ok(PyList(<< PyDict([ label |-> PyStr(l), score |-> x ]) >>)) :
        l \in VerdictLabels, x \in VerdictScores }
    \cup { Ok(PyList(<< >>)), Raise("RuntimeError") }

(***************************************************************************)
(* Legacy Analyzer (email_analyzer.py): attachment and security analysis.  *)
(* email_data is the dictionary handed to analyze().                       *)
(***************************************************************************)
\* _get_extension(filename)
_get_extension(filename) ==
    IF \E i \in 1..Len(filename) : filename[i] = "."
    THEN << "." >> \o Lower(SubSeq(filename, LastIndex(filename, ".") + 1, Len(filename)))
    ELSE << >>

executable_extensions ==
    << << ".", "e", "x", "e" >>, << ".", "b", "a", "t" >>, << ".", "c", "m", "d" >>,
       << ".", "c", "o", "m" >>, << ".", "p", "i", "f" >>, << ".", "s", "c", "r" >>,
       << ".", "v", "b", "s" >>, << ".", "j", "s" >> >>
script_extensions ==
    << << ".", "j", "s" >>, << ".", "v", "b", "s" >>, << ".", "p", "s", "1" >>,
       << ".", "s", "h" >>, << ".", "p", "y" >> >>

\* x in list
InList(x, list) == \E i \in 1..Len(list) : list[i] = x

\* The for loop of _analyze_attachments over the attachments left, from the
\* analysis built so far.
RECURSIVE AttachmentLoop(_, _)
AttachmentLoop(atts, acc) ==
    IF atts = << >> THEN acc
    ELSE
    LET filename == Val(DictGet(Head(atts), "filename", PyStr(<< >>)))
        size == Val(DictGet(Head(atts), "size", PyInt(0)))
        content_type == Val(DictGet(Head(atts), "content_type", PyStr(<< >>)))
        file_info == [ filename |-> filename, size |-> size,
                       content_type |-> content_type,
                       extension |-> _get_extension(filename) ]
        ext == Lower(file_info.extension)
        added == [ acc EXCEPT !.files = Append(@, file_info),
                              !.total_size = @ + size ]
    IN  AttachmentLoop(Tail(atts),
            IF InList(ext, acc.executable_extensions)
            THEN [ added EXCEPT !.has_executables = TRUE,
                                !.suspicious_extensions = Append(@, ext) ]
            ELSE IF InList(ext, acc.script_extensions)
            THEN [ added EXCEPT !.has_scripts = TRUE,
                                !.suspicious_extensions = Append(@, ext) ]
            ELSE added)

\* _analyze_attachments(email_data): Ok(analysis), or the exception raised
\* by an attachment that is no dict or whose fields have other types.
_analyze_attachments(email_data) ==
    LET attachments == DictGet(email_data, "attachments", PyList(<< >>))
    IN  IF TypeOf(attachments) # "list" THEN Raise("TypeError")
        ELSE IF \E i \in 1..Len(Val(attachments)) : TypeOf(Val(attachments)[i]) # "dict"
        THEN Raise("AttributeError")
        ELSE IF \E i \in 1..Len(Val(attachments)) :
                   \/ TypeOf(DictGet(Val(attachments)[i], "filename", PyStr(<< >>))) # "str"
                   \/ TypeOf(DictGet(Val(attachments)[i], "size", PyInt(0))) # "int"
        THEN Raise("TypeError")
        ELSE Ok(AttachmentLoop(Val(attachments),
                    [ count |-> Len(Val(attachments)),
                      total_size |-> 0,
                      files |-> << >>,
                      has_executables |-> FALSE,
                      has_scripts |-> FALSE,
                      suspicious_extensions |-> << >>,
                      executable_extensions |-> executable_extensions,
                      script_extensions |-> script_extensions ]))

\* str.endswith(suffix)
EndsWith(s, suffix) ==
    Len(s) >= Len(suffix) /\ SubSeq(s, Len(s) - Len(suffix) + 1, Len(s)) = suffix

\* any(att.get("filename", "").endswith((".exe", ".bat", ".vbs")) ...)
HasExecutableName(attachments) ==
    \E i \in 1..Len(attachments) :
        \E suffix \in { << ".", "e", "x", "e" >>, << ".", "b", "a", "t" >>,
                        << ".", "v", "b", "s" >> } :
            EndsWith(Val(DictGet(attachments[i], "filename", PyStr(<< >>))), suffix)

\* A risk level that the count raises but never lowers.
RiskLevelNeverLowered(level, indicators) ==
    IF Len(indicators) >= 3 \/ level = "high" THEN "high"
    ELSE IF Len(indicators) >= 1 THEN "medium"
    ELSE level

\* "Determine overall risk level": the level after the count of indicators
\* has been looked at.
RiskLevelByCount(level, indicators) ==
    IF Len(indicators) >= 3 THEN "high"
    ELSE IF Len(indicators) >= 1 THEN "medium"
    ELSE level

\* _analyze_security(email_data): Ok(analysis), or the exception raised by a
\* field of another type.
_analyze_security(email_data) ==
    LET subject_raw == DictGet(email_data, "subject", PyStr(<< >>))
        body_raw    == DictGet(email_data, "body", PyStr(<< >>))
        sender_raw  == DictGet(email_data, "from", PyStr(<< >>))
        attachments == DictGet(email_data, "attachments", PyList(<< >>))
        headers     == DictGet(email_data, "headers", PyDict(EmptyDict))
    IN  IF \E v \in { subject_raw, body_raw, sender_raw } : TypeOf(v) # "str"
        THEN Raise("AttributeError")
        ELSE IF TypeOf(attachments) # "list" THEN Raise("TypeError")
        ELSE IF \E i \in 1..Len(Val(attachments)) : TypeOf(Val(attachments)[i]) # "dict"
        THEN Raise("AttributeError")
        ELSE IF TypeOf(headers) # "dict" THEN Raise("AttributeError")
        ELSE
        LET subject == Lower(Val(subject_raw))
            body    == Lower(Val(body_raw))
            long    == Len(subject) > 100
            marks   == Cardinality({ i \in 1..Len(subject) : subject[i] = "!" }) > 3
            urls    == Len(findall(subject \o << " " >> \o body)) > 0
            exe     == HasExecutableName(Val(attachments))
            no_id   == ~Truthy(DictGet(headers, "Message-ID", PyNone))
            indicators ==
                (IF marks THEN << "Multiple exclamation marks in subject" >> ELSE << >>)
                \o (IF urls THEN << "URLs in email content" >> ELSE << >>)
                \o (IF exe THEN << "Executable attachments" >> ELSE << >>)
            flags ==
                (IF long THEN << "Long subject line" >> ELSE << >>)
                \o (IF marks THEN << "Excessive punctuation" >> ELSE << >>)
                \o (IF urls THEN << "Contains URLs" >> ELSE << >>)
                \o (IF exe THEN << "Executable files" >> ELSE << >>)
                \o (IF no_id THEN << "Missing Message-ID header" >> ELSE << >>)
        IN  Ok([ suspicious_indicators |-> indicators,
                 risk_level |-> RiskLevelByCount(IF exe THEN "high" ELSE "low",
                                                 indicators),
                 flags |-> flags ])

\* The attachments handed to the Legacy Analyzer.
LegacyFiles ==
    { PyDict([ filename |-> Str(n), size |-> PyInt(1) ]) :
        n \in { << "r", "u", "n", ".", "j", "s" >>, << "m", ".", "v", "b", "s" >>,
                << "i", ".", "e", "x", "e" >>, << "I", ".", "E", "X", "E" >>,
                << "g", "o", ".", "b", "a", "t" >>, << "s", ".", "s", "h" >>,
                << "n", ".", "t", "x", "t" >>, << "R", "E", "A", "D", "M", "E" >> } }
    \cup { PyDict(EmptyDict) }
LegacyAttachments ==
    { PyList(<< >>) } \cup { PyList(<< a >>) : a \in LegacyFiles }
    \cup { PyList(<< a, b >>) : a, b \in LegacyFiles }

\* The subjects: short, with three and with four "!", with a URL, and one of
\* 101 characters.
RECURSIVE Repeated(_, _)
Repeated(c, n) ==
    IF n = 0 THEN << >>
    ELSE IF n = 1 THEN << c >>
    ELSE Repeated(c, n \div 2) \o Repeated(c, n - (n \div 2))
LegacySubjects ==
    { << "h", "i" >>, << "W", "o", "w", "!", "!", "!" >>,
      << "W", "!", "!", "o", "w", "!", "!" >>, url_a, Repeated("a", 101),
      Repeated("!", 101) }
LegacyBodies == { << >>, << "x" >>, << "s", "e", "e", " " >> \o url_b }
LegacyHeaders ==
    { PyDict(EmptyDict),
      PyDict([ h \in {"Message-ID"} |-> Str(<< "<", "1", ">" >>) ]),
      PyDict([ h \in {"Message-ID"} |-> Str(<< >>) ]) }

\* EmailAnalyzer._analyze_attachments(email_data) on its own.
AnalyzeAttachments ==
    /\ route = "legacy_attachments" /\ pc = "analyze"
    /\ rec' = _analyze_attachments(data)
    /\ pc' = "done"
    /\ UNCHANGED << route, data, emails, idx, vi, context, results, status, reply, log,
                    wire, back >>

\* EmailAnalyzer._analyze_security(email_data) on its own.
AnalyzeSecurity ==
    /\ route = "legacy_security" /\ pc = "analyze"
    /\ rec' = _analyze_security(data)
    /\ pc' = "done"
    /\ UNCHANGED << route, data, emails, idx, vi, context, results, status, reply, log,
                    wire, back >>

\* ResponseBuilder._build_recipient(context) on its own.
BuildRecipient ==
    /\ route = "recipient" /\ pc = "build"
    /\ rec' = _build_recipient(context, Current)
    /\ pc' = "done"
    /\ UNCHANGED << route, data, emails, idx, vi, context, results, status, reply, log,
                    wire, back >>

InitParts ==
    /\ \/ /\ route = "legacy_attachments"
          /\ \E a \in LegacyAttachments : data = PyDict([ attachments |-> a ])
          /\ pc = "analyze"
          /\ emails = << >>
          /\ idx = 0 /\ vi = 0
          /\ rec = PyNone /\ wire = PyNone
       \/ /\ route = "legacy_security"
          /\ \E s \in LegacySubjects : \E b \in LegacyBodies :
             \E a \in LegacyAttachments : \E h \in LegacyHeaders :
                data = PyDict([ subject |-> Str(s), body |-> Str(b),
                                attachments |-> a, headers |-> h ])
          /\ pc = "analyze"
          /\ emails = << >>
          /\ idx = 0 /\ vi = 0
          /\ rec = PyNone /\ wire = PyNone
       \/ /\ route = "recipient"
          /\ \E to \in ToValues : \E cc \in ShortLists : \E bcc \in ShortLists :
                data = PyDict([ k \in {"cc", "bcc"}
                                      \cup (IF to = PyNone THEN {} ELSE {"to"}) |->
                                  CASE k = "to" -> to
                                    [] k = "cc" -> cc
                                    [] OTHER -> bcc ])
          /\ pc = "build"
          /\ emails = << Val(EmailRequest_from_dict(data)) >>
          /\ idx = 1 /\ vi = 1
          /\ rec = PyNone /\ wire = PyNone
       \/ /\ route = "verdict"
          /\ data = DirectPayload(1)
          /\ wire \in VerdictOutputs
          /\ pc = "validate"
          /\ emails = << Val(EmailRequest_from_dict(data)) >>
          /\ idx = 1 /\ vi = 1
          /\ rec = PyNone
       \/ /\ route = "label"
          /\ data \in LabelValues
          /\ pc = "normalize"
          /\ emails = << >>
          /\ idx = 0 /\ vi = 0
          /\ rec = PyNone /\ wire = PyNone
       \/ /\ route = "truncate"
          /\ \E text \in TruncateTexts : \E n \in TokenLimits :
                data = PyDict([ text |-> PyStr(text), max_tokens |-> PyInt(n) ])
          /\ pc = "truncate"
          /\ emails = << >>
          /\ idx = 0 /\ vi = 0
          /\ rec = PyNone /\ wire = PyNone
       \/ /\ route = "sender"
          /\ \E v \in FromValues : \E r \in ReplyToValues :
                data = PyDict([ k \in {"subject"}
                                      \cup (IF v = PyNone THEN {} ELSE {"from"})
                                      \cup (IF r = PyNone THEN {} ELSE {"reply_to"}) |->
                                  CASE k = "from" -> v
                                    [] k = "reply_to" -> r
                                    [] OTHER -> Str(<< "h", "i" >>) ])
          /\ pc = "build"
          /\ emails = << Val(EmailRequest_from_dict(data)) >>
          /\ idx = 1 /\ vi = 1
          /\ rec = PyNone /\ wire = PyNone
       \/ /\ route = "urls"
          /\ \E b \in UrlBodies :
                data = IF b = PyNone THEN PyDict([ subject |-> Str(<< "h", "i" >>) ])
                       ELSE PyDict([ body |-> b ])
          /\ pc = "validate"
          /\ emails = << Val(EmailRequest_from_dict(data)) >>
          /\ idx = 1 /\ vi = 1
          /\ rec = PyNone /\ wire = PyNone
    /\ context = Context
    /\ results = << >>
    /\ status = 0
    /\ reply = PyNone
    /\ log = << >>
    /\ back = PyNone

NextParts ==
    \/ NormalizeLabel
    \/ Truncate
    \/ BuildSender
    \/ BuildRecipient
    \/ AnalyzeAttachments
    \/ AnalyzeSecurity
    \/ RunEmail
    \/ RunSender
    \/ RunSubject
    \/ RunFraudDetection
    \/ RunMaliciousUrlDetector
    \/ SkipValidator
    \/ BuildDirect

SpecParts == InitParts /\ [][NextParts]_vars

(***************************************************************************)
(* Claims on the operations applied directly (specification SpecParts)     *)
(***************************************************************************)
\* The length of the scheme that starts at i: 7 for http://, 8 for
\* https://, 0 when neither starts there.
SchemeLen(s, i) ==
    IF StartsAt(s, i, << "h", "t", "t", "p", ":", "/", "/" >>) THEN 7
    ELSE IF StartsAt(s, i, << "h", "t", "t", "p", "s", ":", "/", "/" >>) THEN 8
    ELSE 0

\* A scheme starts at i and an accepted character follows it.
UrlStartsAt(s, i) ==
    /\ SchemeLen(s, i) > 0
    /\ i + SchemeLen(s, i) <= Len(s)
    /\ UrlChar(s[i + SchemeLen(s, i)])

\* The places where a claimed match starts: a URL start that no earlier URL
\* reaches through accepted characters only.
ClaimedStarts(s) ==
    { i \in 1..Len(s) :
        /\ UrlStartsAt(s, i)
        /\ ~\E j \in 1..(i - 1) :
              UrlStartsAt(s, j) /\ \A k \in j..(i - 1) : UrlChar(s[k]) }

\* The claimed match at i: the scheme and the longest run of accepted
\* characters after it.
ClaimedMatch(s, i) ==
    LET first == i + SchemeLen(s, i)
        last  == CHOOSE e \in first..Len(s) :
                    /\ \A k \in first..e : UrlChar(s[k])
                    /\ (e = Len(s) \/ ~UrlChar(s[e + 1]))
    IN  SubSeq(s, i, last)

RECURSIVE ClaimedFrom(_, _)
ClaimedFrom(s, starts) ==
    IF starts = {} THEN << >>
    ELSE LET m == CHOOSE x \in starts : \A y \in starts : x <= y
         IN  << ClaimedMatch(s, m) >> \o ClaimedFrom(s, starts \ {m})
ClaimedUrls(s) == ClaimedFrom(s, ClaimedStarts(s))

\* The URLs of the entries the detector left, in order.
EntryUrls(entries) == [i \in 1..Len(entries) |-> entries[i].url]

UrlRun == route = "urls" /\ TypeOf(Current.body) = "str"

\* C11: the URL detector and the content analysis (when the detector has
\* not run) extract the same ordered list from every body text: each match
\* is http:// or https:// followed by the longest run of accepted
\* characters, so it holds no whitespace; "visit http://EXAMPLE.com/a now"
\* gives exactly ["http://EXAMPLE.com/a"].
C11_SameUrlExtraction ==
    UrlRun =>
        LET claimed == ClaimedUrls(Val(Current.body))
        IN  /\ \A i \in 1..Len(claimed) : \A k \in 1..Len(claimed[i]) : ~IsSpace(claimed[i][k])
            /\ Val(Current.body) = body_example =>
                  claimed = << SubSeq(body_example, 7, 26) >>
            \* the content analysis, the detector not having run
            /\ (pc = "done" /\ results # << >> /\ ~hasattr(context, "url_detection_results")) =>
                  results[1].content_analysis.body_urls = claimed
            \* the detector, each of its URLs having left an entry
            /\ (hasattr(context, "url_detection_results")
                  /\ (RaisedOn("MaliciousUrlDetector") \/ claimed = << >>)) =>
                  EntryUrls(context.url_detection_results) = claimed

\* The example body went through the content analysis, the detector not
\* having run.
C11_ExampleExtracted ==
    /\ UrlRun /\ Val(Current.body) = body_example
    /\ pc = "done" /\ results # << >>
    /\ ~hasattr(context, "url_detection_results")
    /\ results[1].content_analysis.body_urls = << SubSeq(body_example, 7, 26) >>

\* The first "@" of an address, 0 when it has none.
ClaimedAt(addr) ==
    IF \E i \in 1..Len(addr) : addr[i] = "@"
    THEN CHOOSE i \in 1..Len(addr) : addr[i] = "@" /\ \A j \in 1..(i - 1) : addr[j] # "@"
    ELSE 0
ClaimedLocalPart(addr) == SubSeq(addr, 1, ClaimedAt(addr) - 1)
ClaimedDomain(addr) == SubSeq(addr, ClaimedAt(addr) + 1, Len(addr))

SenderBuilt == route = "sender" /\ pc = "done" /\ IsOk(rec)

\* C12: from_valid holds exactly when the parsed address contains "@" and
\* what follows its first "@" contains "."; from_local_part and from_domain
\* are what precedes and follows the first "@", both absent when the
\* address has no "@".
C12_SenderValidity ==
    SenderBuilt =>
        LET from_addr == IF Truthy(Current.from_) THEN Val(Current.from_) ELSE << >>
            addr == parseaddr(from_addr)[2]
            s    == Val(rec)
        IN  /\ s.from_valid <=>
                  /\ ClaimedAt(addr) > 0
                  /\ \E i \in 1..Len(ClaimedDomain(addr)) : ClaimedDomain(addr)[i] = "."
            /\ ClaimedAt(addr) > 0 =>
                  /\ s.from_local_part = PyStr(ClaimedLocalPart(addr))
                  /\ s.from_domain = PyStr(ClaimedDomain(addr))
            /\ ClaimedAt(addr) = 0 =>
                  /\ s.from_local_part = PyNone
                  /\ s.from_domain = PyNone

\* The examples of C12: "user@sub.example.com" is valid with local part
\* "user" and domain "sub.example.com"; "not-an-email" and an absent or
\* empty from are invalid with both parts absent.
SenderExamples ==
    SenderBuilt =>
        LET s == Val(rec)
            sub == << "s", "u", "b", ".", "e", "x", "a", "m", "p", "l", "e", ".", "c", "o", "m" >>
        IN  /\ Current.from_ = PyStr(<< "u", "s", "e", "r", "@" >> \o sub) =>
                  /\ s.from_valid
                  /\ s.from_local_part = PyStr(<< "u", "s", "e", "r" >>)
                  /\ s.from_domain = PyStr(sub)
            /\ (\/ ~Truthy(Current.from_)
                \/ Current.from_ = PyStr(<< "n", "o", "t", "-", "a", "n", "-", "e", "m", "a", "i", "l" >>)) =>
                  /\ ~s.from_valid
                  /\ s.from_local_part = PyNone
                  /\ s.from_domain = PyNone

\* A text longer than max_tokens * 3 characters whose first max_tokens * 3
\* characters end inside a word has been truncated.
CutMidWord ==
    /\ route = "truncate" /\ pc = "done" /\ IsOk(rec)
    /\ LET text == Val(Val(data).text)
           max_chars == Val(Val(data).max_tokens) * 3
       IN  /\ Len(text) > max_chars
           /\ text[max_chars] # " " /\ text[max_chars + 1] # " "

\* The truncated text is a prefix of the input of at most max_tokens * 3
\* characters.
IsPrefix(r, text) == Len(r) <= Len(text) /\ r = SubSeq(text, 1, Len(r))

\* The truncated text ends right before a space of the input, the last one
\* of the first max_chars characters.
EndsAtPrecedingSpace(r, text, max_chars) ==
    /\ Len(r) < max_chars
    /\ text[Len(r) + 1] = " "
    /\ \A k \in (Len(r) + 2)..max_chars : text[k] # " "

ClaimedTrimmed(s) ==
    LET kept == { i \in 1..Len(s) : s[i] # " " }
    IN  IF kept = {} THEN << >>
        ELSE LET first == CHOOSE i \in kept : \A j \in kept : i <= j
                 last  == CHOOSE i \in kept : \A j \in kept : j <= i
             IN  [k \in 1..(last - first + 1) |-> LowerChar(s[first + k - 1])]

\* The label the claim gives: booleans directly, numbers 1 when equal to 1
\* or positive, texts by the two word sets, 0 for anything else.
ClaimedLabel(label) ==
    CASE TypeOf(label) = "bool"  -> IF Val(label) THEN 1 ELSE 0
      [] TypeOf(label) = "int"   -> IF Val(label) > 0 THEN 1 ELSE 0
      [] TypeOf(label) = "float" -> IF label[2] = "num" /\ label[3] > 0 THEN 1 ELSE 0
      [] TypeOf(label) = "str"   ->
            IF ClaimedTrimmed(Val(label)) \in spam_labels THEN 1 ELSE 0
      [] OTHER -> 0

\* C14 as stated: label normalization is a total function into {0, 1}:
\* booleans map directly, a number to 1 when it equals 1 or is positive and
\* to 0 otherwise, a text by the two word sets after trimming and
\* lowercasing, anything else to 0.
C14_LabelNormalization ==
    (route = "label" /\ pc = "done") =>
        /\ IsOk(rec)
        /\ Val(rec) \in {0, 1}
        /\ Val(rec) = ClaimedLabel(data)

\* What holds of every label but the floats: the claimed value is returned.
LabelNormalizationButFloats ==
    (route = "label" /\ pc = "done" /\ TypeOf(data) # "float") =>
        /\ IsOk(rec)
        /\ Val(rec) = ClaimedLabel(data)

(***************************************************************************)
(* The early API variant (src/app.py): four validators that only call      *)
(* their classifier, a response built from an empty dictionary, and a      *)
(* batch route that calls an analyzer the module never imports.            *)
(***************************************************************************)
early_flow == << "Email", "Sender", "Subject", "MaliciousUrlDetector" >>

\* What self.pipeline(text) does in the early validators: it answers, or it
\* raises (it is called on whatever the field holds, None included).
EarlyOutputs == { Res(l_phishing, "num", 9), Res(l_benign, "num", 2),
                  Raise("RuntimeError") }

\* validate(param) of the early Email, Sender and MaliciousUrlDetector:
\* the classifier's answer is printed, the context is left as it was, and an
\* exception of the classifier propagates.
Early_validate(ctx, out) == IF IsRaise(out) THEN out ELSE Ok(ctx)

\* validate(param) of the early Subject.
EarlySubject_validate(ctx, out) == IF IsRaise(out) THEN out ELSE Ok(ctx)

\* EmailRequest.to_dict()
EmailRequest_to_dict(req) ==
    LET keys == { k \in {"subject", "body", "to", "reply_to", "date"} :
                    req[k] # PyNone }
                \cup (IF req.from_ # PyNone THEN {"from"} ELSE {})
                \cup { k \in {"cc", "bcc", "headers"} : Truthy(req[k]) }
                \cup (IF Len(req.attachments) > 0 THEN {"attachments"} ELSE {})
    IN  PyDict([k \in keys |->
                  CASE k = "from" -> req.from_
                    [] k = "attachments" ->
                         PyList([i \in 1..Len(req.attachments) |->
                                    asdict(req.attachments[i])])
                    [] OTHER -> req[k]])

\* An analyzer that is in scope and answers with an empty analysis.
AnalyzerInScope(email_dict) == Ok(PyDict(EmptyDict))

\* email_analyzer.analyze(email_dict): the name email_analyzer is bound
\* nowhere in the module, so evaluating it raises NameError.
email_analyzer_analyze(email_dict) == Raise("NameError")

\* A response that carries the date of the request.
EarlyAnalysisWithDate(ctx, email, now) ==
    EmailAnalysisResponse_from_dict(
        PyDict([ metadata |-> PyDict([ date |-> email.date ]) ]), now)

\* analysis_response = EmailAnalysisResponse.from_dict({})
EarlyAnalysis(ctx, email, now) ==
    EmailAnalysisResponse_from_dict(PyDict(EmptyDict), now)

\* analyze_email of the early variant, up to the loop over the flow.
EarlyAnalyzeReceive ==
    /\ route = "early_analyze" /\ pc = "recv"
    /\ IF ~Truthy(data)
       THEN /\ Answer(400, ErrorResponse("No JSON data provided", ""))
            /\ UNCHANGED << emails, idx, vi, context >>
       ELSE LET parsed == EmailRequest_from_dict(data)
            IN  IF IsRaise(parsed)
                THEN /\ Answer(400, ErrorResponse("Invalid request format", Val(parsed)))
                     /\ UNCHANGED << emails, idx, vi, context >>
                ELSE /\ emails' = << Val(parsed) >>
                     /\ idx' = 1 /\ vi' = 1
                     /\ context' = Context
                     /\ pc' = "validate"
                     /\ UNCHANGED << status, reply >>
    /\ UNCHANGED << route, data, results, log, rec, wire, back >>

\* One pass of "for validator in flow: validator.validate(context)".
EarlyValidate ==
    /\ route = "early_analyze" /\ pc = "validate"
    /\ vi <= Len(early_flow)
    /\ \E out \in EarlyOutputs :
        \E r \in { IF early_flow[vi] = "Subject"
                   THEN EarlySubject_validate(context, out)
                   ELSE Early_validate(context, out) } :
          /\ IF IsRaise(r)
             THEN /\ Answer(500, ErrorResponse("Internal server error", Val(r)))
                  /\ UNCHANGED << vi, context >>
             ELSE /\ context' = Val(r)
                  /\ vi' = vi + 1
                  /\ UNCHANGED << pc, status, reply >>
          /\ log' = Append(log, << idx, early_flow[vi], IsRaise(out) >>)
    /\ UNCHANGED << route, data, emails, idx, results, rec, wire, back >>

\* The end of the early analyze_email.
EarlyRespond ==
    /\ route = "early_analyze" /\ pc = "validate"
    /\ vi > Len(early_flow)
    /\ \E now \in Timestamps : \E r \in { EarlyAnalysis(context, Current, now) } :
          /\ results' = << r >>
          /\ Answer(200, EmailAnalysisResponse_to_dict(r))
    /\ UNCHANGED << route, data, emails, idx, vi, context, log, rec, wire, back >>

\* analyze_email_batch of the early variant, up to the loop over the emails.
EarlyBatchReceive ==
    /\ route = "early_batch" /\ pc = "recv"
    /\ LET missing == MissingEmails(data)
       IN  IF IsRaise(missing)
           THEN /\ Answer(500, ErrorResponse("Internal server error", Val(missing)))
                /\ UNCHANGED << emails, idx >>
           ELSE IF Val(missing)
           THEN /\ Answer(400, ErrorResponse("Missing 'emails' key in request", ""))
                /\ UNCHANGED << emails, idx >>
           ELSE LET parsed == BatchEmailRequest_from_dict(data)
                IN  IF IsRaise(parsed)
                    THEN /\ Answer(400, ErrorResponse("Invalid request format",
                                                      Val(parsed)))
                         /\ UNCHANGED << emails, idx >>
                    ELSE /\ emails' = Val(parsed)
                         /\ idx' = 1
                         /\ pc' = "loop"
                         /\ UNCHANGED << status, reply >>
    /\ UNCHANGED << route, data, vi, context, results, log, rec, wire, back >>

\* One pass of the loop over batch_request.emails.
EarlyBatchAnalyze ==
    /\ route = "early_batch" /\ pc = "loop"
    /\ idx <= Len(emails)
    /\ \E now \in Timestamps :
        \E a \in { email_analyzer_analyze(EmailRequest_to_dict(Current)) } :
          /\ IF IsRaise(a)
             THEN /\ Answer(500, ErrorResponse("Internal server error", Val(a)))
                  /\ UNCHANGED << idx, results >>
             ELSE /\ results' = AppendResult(results,
                                   EmailAnalysisResponse_from_dict(Val(a), now))
                  /\ idx' = idx + 1
                  /\ UNCHANGED << pc, status, reply >>
          /\ log' = Append(log, << idx, "analyze", IsRaise(a) >>)
    /\ UNCHANGED << route, data, emails, vi, context, rec, wire, back >>

\* The end of the early analyze_email_batch.
EarlyBatchRespond ==
    /\ route = "early_batch" /\ pc = "loop"
    /\ idx > Len(emails)
    /\ Answer(200, BatchAnalysisResponse(Len(results), results))
    /\ UNCHANGED << route, data, emails, idx, vi, context, results, log, rec, wire, back >>

\* The requests sent to the early variant: those sent to the later one, and
\* emails whose bodies hold URLs, alone and in batches.
EarlyAnalyzePayloads ==
    AnalyzePayloads \o [n \in 1..(MaxUrls + 1) |-> DirectPayload(n - 1)]
EarlyBatchPayloads ==
    BatchPayloads \o
    [n \in 1..(MaxUrls + 1) |->
        PyDict([ emails |-> PyList([i \in 1..n |-> DirectPayload(i - 1)]) ])]

InitEarly ==
    /\ \/ /\ route = "early_analyze"
          /\ \E i \in 1..Len(EarlyAnalyzePayloads) : data = EarlyAnalyzePayloads[i]
       \/ /\ route = "early_batch"
          /\ \E i \in 1..Len(EarlyBatchPayloads) : data = EarlyBatchPayloads[i]
    /\ pc = "recv"
    /\ emails = << >>
    /\ idx = 0 /\ vi = 0
    /\ context = Context
    /\ results = << >>
    /\ status = 0
    /\ reply = PyNone
    /\ log = << >>
    /\ rec = PyNone /\ wire = PyNone /\ back = PyNone

NextEarly ==
    \/ EarlyAnalyzeReceive
    \/ EarlyValidate
    \/ EarlyRespond
    \/ EarlyBatchReceive
    \/ EarlyBatchAnalyze
    \/ EarlyBatchRespond

SpecEarly == InitEarly /\ [][NextEarly]_vars

(***************************************************************************)
(* C15, C16: the early API variant                                         *)
(***************************************************************************)
\* The early batch handler passed the 'emails' check and parsed the request.
EarlyBatchParsed == route = "early_batch" /\ idx >= 1

\* C15 (as stated): in the early variant, for every POST /analyze/batch
\* request that passes the 'emails' key check and parses, the handler never
\* returns 200.
C15_EarlyBatchNever200 == EarlyBatchParsed => status # 200

\* C15 (amended): a parsed batch of at least one email is answered 500 at its
\* first email, the analyzer name being unbound, with nothing analysed; a
\* parsed batch of no email never reaches the analyzer and is answered 200
\* with total 0.
C15_EarlyBatchFailsAtFirstEmail ==
    (EarlyBatchParsed /\ pc = "done") =>
        IF Len(emails) = 0
        THEN /\ status = 200
             /\ reply = BatchAnalysisResponse(0, << >>)
             /\ log = << >>
        ELSE /\ status = 500
             /\ reply = ErrorResponse("Internal server error", "NameError")
             /\ results = << >>
             /\ log = << << 1, "analyze", TRUE >> >>

\* A batch of two or more emails was answered.
C15_BatchOfSeveralAnswered ==
    EarlyBatchParsed /\ pc = "done" /\ Len(emails) >= 2 /\ status # 0

\* Every field of an analysis at its default, in the shape sent to the client.
DefaultAnalysisDict(now) ==
    PyDict([
      timestamp |-> now,
      metadata |-> PyDict(
        [ date |-> PyNone, date_valid |-> FALSE, headers |-> PyDict(EmptyDict),
          header_count |-> 0, has_message_id |-> FALSE, has_return_path |-> FALSE,
          has_received |-> FALSE, parsed_date |-> PyNone ]),
      content_analysis |-> PyDict(
        [ subject |-> << >>, subject_length |-> 0,
          subject_uppercase_ratio |-> Ratio(0, 1),
          subject_has_suspicious_keywords |-> FALSE,
          subject_suspicious_keywords |-> << >>,
          subject_has_urls |-> FALSE, subject_urls |-> << >>,
          body_length |-> 0, body_word_count |-> 0,
          body_has_urls |-> FALSE, body_urls |-> << >>,
          body_has_suspicious_keywords |-> FALSE,
          body_suspicious_keywords |-> << >>,
          body_has_html |-> FALSE, body_has_images |-> FALSE ]),
      sender_analysis |-> PyDict(
        [ from |-> PyStr(<< >>), from_valid |-> FALSE, from_domain |-> PyNone,
          from_local_part |-> PyNone, reply_to |-> PyStr(<< >>),
          reply_to_different |-> PyBool(FALSE), has_display_name |-> FALSE,
          display_name |-> PyNone ]),
      recipient_analysis |-> PyDict(
        [ to_count |-> 0, to_addresses |-> << >>, cc_count |-> 0,
          cc_addresses |-> << >>, bcc_count |-> 0, bcc_addresses |-> << >>,
          total_recipients |-> 0, unique_domains |-> {},
          unique_domain_count |-> 0, has_cc |-> FALSE, has_bcc |-> FALSE ]),
      attachment_analysis |-> PyDict(
        [ count |-> 0, total_size |-> 0, files |-> << >>,
          has_executables |-> FALSE, has_scripts |-> FALSE,
          suspicious_extensions |-> << >>, executable_extensions |-> << >>,
          script_extensions |-> << >> ]),
      security_analysis |-> PyDict(
        [ suspicious_indicators |-> << >>, risk_level |-> "low", flags |-> << >> ]),
      overall_score |-> 0 ])

\* The early /analyze handler parsed the request and no validator raised.
EarlyAnalyzePassed ==
    /\ route = "early_analyze" /\ idx >= 1 /\ pc = "done"
    /\ \A k \in 1..Len(log) : ~log[k][3]

\* C16: in the early variant, every parseable /analyze request whose
\* validators do not raise is answered 200 with one and the same response
\* but for the timestamp: every analysis at its defaults, risk_level "low",
\* overall_score 0, whatever the request holds and whatever is on the context.
C16_EarlyAnalyzeAllDefaults ==
    EarlyAnalyzePassed =>
        /\ status = 200
        /\ \E now \in Timestamps : reply = DefaultAnalysisDict(now)
        /\ Val(Val(reply).security_analysis).risk_level = "low"
        /\ Val(reply).overall_score = 0

\* A request with a date, a body with a URL and attachments was answered 200.
C16_FullRequestAnswered ==
    /\ EarlyAnalyzePassed /\ status = 200
    /\ Current.date # PyNone
    /\ Truthy(Current.body)
    /\ Len(Current.attachments) > 0

(***************************************************************************)
(* The validators applied in every order of the list.                      *)
(***************************************************************************)
\* Every order of the six validators.
Orders ==
    { [i \in 1..Len(AllValidators) |-> AllValidators[p[i]]] :
        p \in Permutations(1..Len(AllValidators)) }

\* What each classifier answers whenever it is called in a run: a classifier
\* is a function of its input, and every validator has its own.
OrderOracles ==
    { [ text |-> [ Email |-> Res(l_phishing, "num", 9),
                   Sender |-> Res(l_benign, "num", 2),
                   Subject |-> Raise("RuntimeError"),
                   FraudDetection |-> Res(l_benign, "num", 9) ],
        url |-> Res(l_malicious, "num", 9),
        malware |-> << TRUE, 7 >> ],
      [ text |-> [ Email |-> Res(l_benign, "num", 2),
                   Sender |-> Res(l_phishing, "num", 3),
                   Subject |-> Res(l_benign, "nan", 0),
                   FraudDetection |-> Ok(PyList(<< >>)) ],
        url |-> Raise("RuntimeError"),
        malware |-> << FALSE, 9 >> ] }

OrderPayloads == << p_full, p_min, DirectPayload(2) >>

InitOrder ==
    /\ route = "order"
    /\ \E i \in 1..Len(OrderPayloads) : data = OrderPayloads[i]
    /\ \E o \in OrderOracles : \E l \in Orders :
          wire = [ list |-> l, text |-> o.text, url |-> o.url, malware |-> o.malware ]
    /\ pc = "validate"
    /\ emails = << Val(EmailRequest_from_dict(data)) >>
    /\ idx = 1 /\ vi = 1
    /\ context = Context
    /\ results = << >>
    /\ status = 0
    /\ reply = PyNone
    /\ log = << >>
    /\ rec = PyNone /\ back = PyNone

NextOrder ==
    \/ RunEmail
    \/ RunSender
    \/ RunSubject
    \/ RunFraudDetection
    \/ RunMaliciousUrlDetector
    \/ RunMalConvDetector
    \/ BuildDirect

SpecOrder == InitOrder /\ [][NextOrder]_vars

(***************************************************************************)
(* C17: the order of the validators                                        *)
(***************************************************************************)
\* The context left by the six validators run in the order of the list, each
\* classifier answering as in the run at hand.
ListOrderContext ==
    LET c1 == Email_validate(Context, Current, wire.text.Email)
        c2 == Sender_validate(c1, Current, wire.text.Sender)
        c3 == Subject_validate(c2, Current, wire.text.Subject)
        c4 == FraudDetection_validate(c3, Current, wire.text.FraudDetection)
        c5 == MaliciousUrlDetector_validate(c4, Current,
                  [u \in UrlsOf(Current) |-> wire.url])
    IN  MalConvDetector_validate(c5, Current, [b \in BytesOf(Current) |-> wire.malware])

\* The context fields of each validator.
OwnFields ==
    [ Email |-> {"email_body_phishing_score", "email_body_is_phishing"},
      Sender |-> {"sender_phishing_score", "sender_is_phishing"},
      Subject |-> {"subject_phishing_score", "subject_is_phishing"},
      FraudDetection |-> {"fraud_score", "is_fraud"},
      MaliciousUrlDetector |-> {"url_detection_results", "malicious_url_count"},
      MalConvDetector |-> {"malware_detection_results"} ]

\* The fields of the context that a step sets or changes.
Written ==
    { k \in DOMAIN context' : k \notin DOMAIN context \/ context'[k] # context[k] }

\* Once every validator has run, in whatever order, the context is the one
\* of the list order, and so is the response built from it.
SameAsListOrder ==
    (route = "order" /\ vi > Len(Pipeline)) =>
        /\ context = ListOrderContext
        /\ pc = "done" =>
             \E now \in Timestamps : \E r \in { build(ListOrderContext, Current, now) } :
                IF IsRaise(r) THEN reply = r ELSE results = << Val(r) >>

\* A validator sets exactly its own fields, leaves no field of the context
\* behind and leaves the EmailRequest alone.
WritesOwnFieldsOnly ==
    (route = "order" /\ vi' = vi + 1) =>
        /\ Written \subseteq OwnFields[Pipeline[vi]]
        /\ OwnFields[Pipeline[vi]] \subseteq DOMAIN context'
        /\ DOMAIN context \subseteq DOMAIN context'
        /\ emails' = emails

\* C17: validator order does not affect the result: each validator writes
\* only its own fields, never another validator's and never the
\* EmailRequest, so for every request and every permutation of the
\* validator list the final context and the response built from it are
\* those of the list order.
C17_OrderIrrelevant == [][WritesOwnFieldsOnly]_vars /\ []SameAsListOrder

\* The validators ran in an order that puts Sender before Email and the URL
\* detector first, and the response was built.
C17_ReorderedRunBuilt ==
    /\ route = "order" /\ pc = "done"
    /\ wire.list[1] = "MaliciousUrlDetector"
    /\ \E i, j \in 1..Len(wire.list) :
          i < j /\ wire.list[i] = "Sender" /\ wire.list[j] = "Email"
    /\ context.email_body_is_phishing /\ ~context.sender_is_phishing
    /\ Len(results) = 1

(***************************************************************************)
(* C18: the verdict rule of the text validators                            *)
(***************************************************************************)
\* The four text validators ran on an email whose body, sender and subject
\* are non-empty, and each classifier answered with a labelled score.
VerdictRun ==
    /\ route = "verdict" /\ vi > Len(Pipeline)
    /\ ~IsRaise(wire) /\ Len(Val(Val(wire))) > 0

AnsweredLabel == Lower(Val(Val(Val(Val(wire))[1]).label))
AnsweredScore == Val(Val(Val(wire))[1]).score

\* 0.0 for a NaN or infinite raw score, otherwise the raw score clamped to
\* [0.0, 1.0], in tenths.
ClaimedScore ==
    IF AnsweredScore[2] \in {"nan", "inf"} THEN 0
    ELSE IF AnsweredScore[3] < 0 THEN 0
    ELSE IF AnsweredScore[3] > One THEN One
    ELSE AnsweredScore[3]

ScoresAsClaimed ==
    /\ context.email_body_phishing_score = ClaimedScore
    /\ context.sender_phishing_score = ClaimedScore
    /\ context.subject_phishing_score = ClaimedScore
    /\ context.fraud_score = ClaimedScore

FraudVerdictAsClaimed ==
    context.is_fraud <=> \/ Contains(AnsweredLabel, s_fraud)
                         \/ Contains(AnsweredLabel, s_malicious)
                         \/ ClaimedScore * 2 > One

\* C18 (as stated): the verdict of the phishing-body, phishing-sender and
\* phishing-subject validators is true iff the lowercased label contains
\* "phishing" or the sanitized score exceeds 0.5; that of the fraud
\* validator iff the label contains "fraud" or "malicious" or the score
\* exceeds 0.5; the stored score is 0.0 for NaN/infinite raw scores and the
\* raw score clamped to [0.0, 1.0] otherwise.
C18_VerdictRule ==
    VerdictRun =>
        LET phishing == \/ Contains(AnsweredLabel, s_phishing)
                        \/ ClaimedScore * 2 > One
        IN  /\ context.email_body_is_phishing <=> phishing
            /\ context.sender_is_phishing <=> phishing
            /\ context.subject_is_phishing <=> phishing
            /\ FraudVerdictAsClaimed
            /\ ScoresAsClaimed

\* C18 (amended): as stated, but the three phishing validators also hold a
\* label that contains "malicious" for a true verdict.
C18_VerdictRuleWithMalicious ==
    VerdictRun =>
        LET phishing == \/ Contains(AnsweredLabel, s_phishing)
                        \/ Contains(AnsweredLabel, s_malicious)
                        \/ ClaimedScore * 2 > One
        IN  /\ context.email_body_is_phishing <=> phishing
            /\ context.sender_is_phishing <=> phishing
            /\ context.subject_is_phishing <=> phishing
            /\ FraudVerdictAsClaimed
            /\ ScoresAsClaimed

\* The classifiers answered a benign label with a raw score above 1.0: the
\* verdicts are true on the score alone.
C18_HighScoreBenignLabel ==
    /\ VerdictRun
    /\ AnsweredLabel = Lower(l_benign)
    /\ AnsweredScore = PyFloat("num", 17)
    /\ context.email_body_is_phishing /\ context.is_fraud

(***************************************************************************)
(* C19, C20: the entries and the counter of the URL detector               *)
(***************************************************************************)
\* The URL detector ran on a non-empty body text.
DetectorRanOnText ==
    /\ route = "urls"
    /\ hasattr(context, "url_detection_results")
    /\ TypeOf(Current.body) = "str" /\ Truthy(Current.body)

\* An entry of a URL whose classification completed, or of one whose
\* classification failed.
IsAnsweredEntry(e) == DOMAIN e = {"url", "is_malicious", "score", "label"}
IsFailedEntry(e) ==
    /\ DOMAIN e = {"url", "is_malicious", "score", "error"}
    /\ ~e.is_malicious /\ e.score = 0

\* C19: after the URL detector runs on a non-empty body,
\* url_detection_results holds exactly one entry per URL occurrence of the
\* body, in order of appearance and without de-duplication, each either an
\* answered entry {url, is_malicious, score, label} or a failed entry
\* {url, is_malicious: false, score: 0.0, error}.
C19_OneEntryPerOccurrence ==
    DetectorRanOnText =>
        LET entries == context.url_detection_results
            urls == ClaimedUrls(Val(Current.body))
        IN  /\ Len(entries) = Len(urls)
            /\ \A i \in 1..Len(entries) :
                  /\ entries[i].url = urls[i]
                  /\ IsAnsweredEntry(entries[i]) \/ IsFailedEntry(entries[i])

\* The entries are those of the URL occurrences in order, some left out.
RECURSIVE IsSubsequence(_, _)
IsSubsequence(s, t) ==
    IF s = << >> THEN TRUE
    ELSE IF t = << >> THEN FALSE
    ELSE IF Head(s) = Head(t) THEN IsSubsequence(Tail(s), Tail(t))
    ELSE IsSubsequence(s, Tail(t))

\* What holds of the entries whatever the classifier answers: at most one
\* entry per occurrence, in order of appearance, each of one of the two
\* shapes.
EntriesInOrder ==
    DetectorRanOnText =>
        LET entries == context.url_detection_results
        IN  /\ IsSubsequence(EntryUrls(entries), ClaimedUrls(Val(Current.body)))
            /\ \A i \in 1..Len(entries) :
                  IsAnsweredEntry(entries[i]) \/ IsFailedEntry(entries[i])

\* The number of entries whose is_malicious is true.
MaliciousEntries(entries) ==
    Cardinality({ i \in 1..Len(entries) : entries[i].is_malicious })

\* The URL detector has returned.
DetectorReturned == route = "urls" /\ \E k \in 1..Len(log) : log[k][2] = "MaliciousUrlDetector"

\* C20: after every return of the URL detector (empty body, normal
\* completion, per-URL failure, outer failure) url_detection_results and
\* malicious_url_count are both on the context, and malicious_url_count is
\* the number of entries whose is_malicious is true.
C20_CountMatchesEntries ==
    DetectorReturned =>
        /\ hasattr(context, "url_detection_results")
        /\ hasattr(context, "malicious_url_count")
        /\ context.malicious_url_count = MaliciousEntries(context.url_detection_results)

\* The detector returned with a malicious entry and a failed entry on the
\* context, and a counter of one.
C20_MixedEntriesCounted ==
    /\ DetectorReturned
    /\ context.malicious_url_count = 1
    /\ \E i, k \in 1..Len(context.url_detection_results) :
          /\ IsAnsweredEntry(context.url_detection_results[i])
          /\ context.url_detection_results[i].is_malicious
          /\ IsFailedEntry(context.url_detection_results[k])

\* The detector returned from its outer failure: a body that is no text.
OuterFailureCounted ==
    /\ DetectorReturned
    /\ Truthy(Current.body) /\ TypeOf(Current.body) # "str"
    /\ context.url_detection_results = << >> /\ context.malicious_url_count = 0

(***************************************************************************)
(* C21: the body URLs of the content analysis                              *)
(***************************************************************************)
\* The Response Builder built a response on the route "urls".
BuiltOnUrls == route = "urls" /\ pc = "done" /\ results # << >>

\* The body text handed to the pattern: "" for an absent or empty body.
BodyText == IF Truthy(Current.body) THEN Val(Current.body) ELSE << >>

\* C21: when the URL detector has run before the Response Builder,
\* body_urls is the ordered list of the url fields of
\* url_detection_results, not a new extraction from the body, and
\* body_has_urls is true iff that list is non-empty; when the detector has
\* not run, body_urls is the pattern's extraction from the body.
C21_BodyUrlsFromDetector ==
    BuiltOnUrls =>
        LET c == results[1].content_analysis
        IN  /\ c.body_has_urls <=> c.body_urls # << >>
            /\ IF hasattr(context, "url_detection_results")
               THEN c.body_urls = EntryUrls(context.url_detection_results)
               ELSE c.body_urls = ClaimedUrls(BodyText)

\* The detector ran and left no entry for a URL of the body: the response
\* built afterwards lists the detector's URLs, which are fewer than those
\* the pattern extracts from the body.
C21_DetectorUrlsNotBodyUrls ==
    /\ BuiltOnUrls
    /\ hasattr(context, "url_detection_results")
    /\ Len(context.url_detection_results) >= 1
    /\ Len(results[1].content_analysis.body_urls) < Len(ClaimedUrls(BodyText))

(***************************************************************************)
(* C22: reply_to_different                                                 *)
(***************************************************************************)
\* The raw from and reply_to strings of the request ("" when absent).
RawFrom == IF Truthy(Current.from_) THEN Current.from_ ELSE PyStr(<< >>)
RawReplyTo == IF Truthy(Current.reply_to) THEN Current.reply_to ELSE PyStr(<< >>)

\* C22: in the sender analysis reply_to_different is the boolean true if
\* reply_to is non-empty and differs from the raw (not re-parsed) from
\* string of the request, and the boolean false otherwise, an absent or
\* empty reply_to included.
C22_ReplyToDifferent ==
    (SenderBuilt /\ IsOk(rec)) =>
        Val(rec).reply_to_different =
            PyBool(Truthy(RawReplyTo) /\ RawReplyTo # RawFrom)

\* What the code computes: reply_to itself when it is empty (the empty
\* string, not a boolean), otherwise whether it differs from the address
\* that parseaddr takes out of the from string.
ReplyToDifferentFromParsed ==
    (SenderBuilt /\ IsOk(rec)) =>
        Val(rec).reply_to_different =
            IF Truthy(RawReplyTo)
            THEN PyBool(RawReplyTo # PyStr(parseaddr(Val(RawFrom))[2]))
            ELSE PyStr(<< >>)

(***************************************************************************)
(* C23: the unique domains of the recipient analysis                       *)
(***************************************************************************)
RecipientBuilt == route = "recipient" /\ pc = "done" /\ IsOk(rec)

\* The addresses of to, cc and bcc, to being one address or a list.
AllRecipients ==
    (CASE TypeOf(Current.to) = "str"  -> << Current.to >>
       [] TypeOf(Current.to) = "list" -> Val(Current.to)
       [] OTHER -> << >>)
    \o Val(Current.cc) \o Val(Current.bcc)

\* What follows the first "@" of an address that has one.
AfterFirstAt(a) ==
    LET at == CHOOSE i \in 1..Len(a) : a[i] = "@" /\ \A j \in 1..(i - 1) : a[j] # "@"
    IN  SubSeq(a, at + 1, Len(a))

ClaimedDomains ==
    { AfterFirstAt(Val(AllRecipients[i])) :
        i \in { j \in 1..Len(AllRecipients) :
                  \E k \in 1..Len(Val(AllRecipients[j])) : Val(AllRecipients[j])[k] = "@" } }

CountsAsClaimed ==
    /\ Val(rec).unique_domain_count = Cardinality(Val(rec).unique_domains)
    /\ Val(rec).total_recipients =
          Val(rec).to_count + Val(rec).cc_count + Val(rec).bcc_count
    /\ Val(rec).total_recipients = Len(AllRecipients)

\* C23: in the recipient analysis unique_domains holds, without duplicates,
\* exactly the substrings after the first "@" of every address of to, cc and
\* bcc that contains "@"; unique_domain_count is its size and
\* total_recipients = to_count + cc_count + bcc_count.
C23_UniqueDomains ==
    RecipientBuilt =>
        /\ Val(rec).unique_domains = ClaimedDomains
        /\ CountsAsClaimed

\* What holds of every request: the counts are as claimed, and the domains
\* are as claimed when no address holds a second "@".
UniqueDomainsOfPlainAddresses ==
    RecipientBuilt =>
        /\ CountsAsClaimed
        /\ (\A d \in ClaimedDomains : \A k \in 1..Len(d) : d[k] # "@") =>
              Val(rec).unique_domains = ClaimedDomains

(***************************************************************************)
(* C24, C25: the Legacy Analyzer                                           *)
(***************************************************************************)
AttachmentsAnalyzed == route = "legacy_attachments" /\ pc = "done" /\ IsOk(rec)

\* The lowercased text after the last "." of a file name, with the ".".
ClaimedExtension(filename) ==
    IF \E i \in 1..Len(filename) : filename[i] = "."
    THEN LET dot == CHOOSE i \in 1..Len(filename) :
                      filename[i] = "." /\ \A j \in (i + 1)..Len(filename) : filename[j] # "."
         IN  Lower(SubSeq(filename, dot, Len(filename)))
    ELSE << >>

\* Some attachment of the request has one of the extensions.
HasAttachment(exts) ==
    \E i \in 1..Len(Val(Val(data).attachments)) :
        /\ "filename" \in DOMAIN Val(Val(Val(data).attachments)[i])
        /\ ClaimedExtension(Val(Val(Val(Val(data).attachments)[i]).filename)) \in exts

JsOrVbs == { << ".", "j", "s" >>, << ".", "v", "b", "s" >> }

\* C24: in the Legacy Analyzer's attachment analysis an attachment whose
\* extension is .js or .vbs, which is on both the executable and the script
\* extension lists, sets both has_executables and has_scripts.
C24_JsSetsBothFlags ==
    (AttachmentsAnalyzed /\ HasAttachment(JsOrVbs)) =>
        Val(rec).has_executables /\ Val(rec).has_scripts

\* What the code computes: has_executables for an extension of the
\* executable list; has_scripts only for one of the script list that is not
\* on the executable list (.ps1, .sh, .py).
FlagsByFirstList ==
    AttachmentsAnalyzed =>
        /\ Val(rec).has_executables <=>
              HasAttachment({ executable_extensions[i] : i \in 1..Len(executable_extensions) })
        /\ Val(rec).has_scripts <=>
              HasAttachment({ << ".", "p", "s", "1" >>, << ".", "s", "h" >>, << ".", "p", "y" >> })

SecurityAnalyzed == route = "legacy_security" /\ pc = "done" /\ IsOk(rec)

\* Some attachment of the request has a file name that ends in .exe, .bat or
\* .vbs.
ExecutableNamed ==
    \E i \in 1..Len(Val(Val(data).attachments)) :
        /\ "filename" \in DOMAIN Val(Val(Val(data).attachments)[i])
        /\ LET n == Val(Val(Val(Val(data).attachments)[i]).filename)
           IN  /\ Len(n) >= 4
               /\ SubSeq(n, Len(n) - 3, Len(n)) \in
                     { << ".", "e", "x", "e" >>, << ".", "b", "a", "t" >>,
                       << ".", "v", "b", "s" >> }

\* C25: in the Legacy Analyzer's security analysis the final risk_level is
\* decided by the number of suspicious indicators alone: "high" iff 3 or
\* more, "medium" iff 1 or 2, "low" iff none; an attachment whose file name
\* ends in .exe, .bat or .vbs ends as "medium" whenever fewer than 3
\* indicators were collected, and the flag-only findings (long subject,
\* missing Message-ID) never change risk_level.
C25_RiskLevelByCount ==
    SecurityAnalyzed =>
        LET n == Len(Val(rec).suspicious_indicators)
            level == Val(rec).risk_level
        IN  /\ level = "high" <=> n >= 3
            /\ level = "medium" <=> n \in {1, 2}
            /\ level = "low" <=> n = 0
            /\ (ExecutableNamed /\ n < 3) => level = "medium"
            /\ ExecutableNamed => n >= 1

\* An .exe attachment alone, on a long subject without Message-ID: two
\* flag-only findings, one indicator, and the level ends as "medium".
C25_ExecutableEndsMedium ==
    /\ SecurityAnalyzed
    /\ ExecutableNamed
    /\ Len(Val(rec).suspicious_indicators) = 1
    /\ Len(Val(rec).flags) = 3
    /\ Val(rec).risk_level = "medium"

(***************************************************************************)
(* Evaluation harness (e2e/main.py): main() from the health check on.      *)
(* emails holds the labels of the selected rows, log the HTTP requests     *)
(* issued with their answers, rec the Evaluator, wire the two counters,    *)
(* back the report files written and reply the exit code.                  *)
(***************************************************************************)
\* Most rows in a run.
MaxRows == 3

SCORE_THRESHOLD == 50

\* What an HTTP request can come to: a transport error, or a status code
\* with a body (a JSON object, or a body that is no JSON).
HttpAnswers ==
    { Raise("ConnectionError"), Raise("Timeout") }
    \cup { Ok([ code |-> 200, json |-> Ok(PyDict([ overall_score |-> n ])) ]) :
             n \in { 0, SCORE_THRESHOLD, 100 } }
    \cup { Ok([ code |-> 200, json |-> Ok(PyDict(EmptyDict)) ]),
           Ok([ code |-> 200, json |-> Raise("JSONDecodeError") ]),
           Ok([ code |-> 400, json |-> Ok(PyDict([ error |-> "Invalid request format" ])) ]),
           Ok([ code |-> 500, json |-> Ok(PyDict([ error |-> "Internal server error",
                                                  overall_score |-> 100 ])) ]) }

\* A health check that takes any answer for a healthy API.
HealthAssumed(answer) == TRUE

\* APIClient.health_check()
health_check(answer) ==
    IF IsRaise(answer) THEN FALSE ELSE Val(answer).code = 200

\* A client that returns the body whatever the status code.
AnalyzeAnyStatus(answer) ==
    IF IsRaise(answer) THEN PyNone
    ELSE IF IsRaise(Val(answer).json) THEN PyNone
    ELSE Val(Val(answer).json)

\* APIClient.analyze_email(email): the JSON body of a 200 answer, else None.
analyze_email(answer) ==
    IF IsRaise(answer) THEN PyNone
    ELSE IF Val(answer).code = 200
    THEN (IF IsRaise(Val(answer).json) THEN PyNone ELSE Val(Val(answer).json))
    ELSE PyNone

\* Evaluator.__init__
Evaluator == [ predictions |-> << >>, true_labels |-> << >>, scores |-> << >> ]

\* Evaluator.add_result(true_label, api_response)
add_result(ev, true_label, api_response) ==
    IF api_response = PyNone THEN ev
    ELSE LET score == DictGet(api_response, "overall_score", 0)
         IN  [ predictions |-> Append(ev.predictions,
                                      IF score >= SCORE_THRESHOLD THEN 1 ELSE 0),
               true_labels |-> Append(ev.true_labels, true_label),
               scores      |-> Append(ev.scores, score) ]

\* The files of Step 6.
ReportFiles == { "evaluation_report.txt", "evaluation_plots.png", "metrics.json" }

\* The label lists of at most n rows.
RECURSIVE LabelLists(_)
LabelLists(n) ==
    IF n = 0 THEN { << >> }
    ELSE LabelLists(n - 1)
         \cup { Append(l, b) : l \in { x \in LabelLists(n - 1) : Len(x) = n - 1 },
                               b \in {0, 1} }

\* Steps 1 and 2: the dataset is found and loaded, or main returns 1.
HarnessLoad ==
    /\ route = "harness" /\ pc = "load"
    /\ \/ /\ pc' = "health"
          /\ UNCHANGED reply
       \/ /\ pc' = "done"
          /\ reply' = PyInt(1)
    /\ UNCHANGED << route, data, emails, idx, vi, context, results, status, log, rec,
                    wire, back >>

\* Step 3: "if not client.health_check(): return 1".
HarnessHealth ==
    /\ route = "harness" /\ pc = "health"
    /\ \E answer \in HttpAnswers :
          /\ log' = Append(log, << 0, "GET /health", answer >>)
          /\ IF health_check(answer)
             THEN /\ pc' = "loop"
                  /\ idx' = 1
                  /\ rec' = Evaluator
                  /\ wire' = [ successful |-> 0, failed |-> 0 ]
                  /\ UNCHANGED reply
             ELSE /\ pc' = "done"
                  /\ reply' = PyInt(1)
                  /\ UNCHANGED << idx, rec, wire >>
    /\ UNCHANGED << route, data, emails, vi, context, results, status, back >>

\* Step 4: one pass of the loop over emails_with_labels.
HarnessAnalyze ==
    /\ route = "harness" /\ pc = "loop"
    /\ idx <= Len(emails)
    /\ \E answer \in HttpAnswers : \E response \in { analyze_email(answer) } :
          /\ log' = Append(log, << idx, "POST /analyze", answer >>)
          /\ IF Truthy(response)
             THEN /\ rec' = add_result(rec, emails[idx], response)
                  /\ wire' = [ wire EXCEPT !.successful = @ + 1 ]
             ELSE /\ wire' = [ wire EXCEPT !.failed = @ + 1 ]
                  /\ UNCHANGED rec
    /\ idx' = idx + 1
    /\ UNCHANGED << route, data, pc, emails, vi, context, results, status, reply, back >>

\* Step 5: evaluate() answers with an error when nothing was evaluated, and
\* main returns 1.
HarnessEvaluate ==
    /\ route = "harness" /\ pc = "loop"
    /\ idx > Len(emails)
    /\ IF Len(rec.true_labels) = 0
       THEN /\ pc' = "done"
            /\ reply' = PyInt(1)
       ELSE /\ pc' = "report"
            /\ UNCHANGED reply
    /\ UNCHANGED << route, data, emails, idx, vi, context, results, status, log, rec,
                    wire, back >>

\* Step 6: the report, the plots and the metrics are written; main returns 0.
HarnessReport ==
    /\ route = "harness" /\ pc = "report"
    /\ back' = ReportFiles
    /\ reply' = PyInt(0)
    /\ pc' = "done"
    /\ UNCHANGED << route, data, emails, idx, vi, context, results, status, log, rec,
                    wire >>

InitHarness ==
    /\ route = "harness"
    /\ data = PyNone
    /\ pc = "load"
    /\ emails \in LabelLists(MaxRows)
    /\ idx = 0 /\ vi = 0
    /\ context = Context
    /\ results = << >>
    /\ status = 0
    /\ reply = PyNone
    /\ log = << >>
    /\ rec = PyNone /\ wire = PyNone
    /\ back = {}

NextHarness ==
    \/ HarnessLoad
    \/ HarnessHealth
    \/ HarnessAnalyze
    \/ HarnessEvaluate
    \/ HarnessReport

SpecHarness == InitHarness /\ [][NextHarness]_vars

(***************************************************************************)
(* C26, C27: the evaluation harness                                        *)
(***************************************************************************)
IsHealthy(k) ==
    /\ log[k][2] = "GET /health"
    /\ IsOk(log[k][3]) /\ Val(log[k][3]).code = 200
IsUnhealthy(k) == log[k][2] = "GET /health" /\ ~IsHealthy(k)
IsAnalyze(k) == log[k][2] = "POST /analyze"

\* C26: in every run of the harness no POST /analyze is issued before a
\* GET /health has returned 200; when the health check fails (a status
\* other than 200 or a transport error) the harness returns exit code 1
\* with no /analyze request issued and no report file written.
C26_HealthBeforeAnalyze ==
    route = "harness" =>
        /\ \A k \in 1..Len(log) : IsAnalyze(k) => \E j \in 1..(k - 1) : IsHealthy(j)
        /\ (\E k \in 1..Len(log) : IsUnhealthy(k)) =>
              /\ pc = "done" /\ reply = PyInt(1)
              /\ \A k \in 1..Len(log) : ~IsAnalyze(k)
              /\ back = {}

\* The API answered the health check with a status other than 200 and the
\* harness has returned.
C26_UnhealthyRunEnded ==
    /\ route = "harness" /\ pc = "done"
    /\ Len(emails) > 0
    /\ \E k \in 1..Len(log) : IsUnhealthy(k) /\ IsOk(log[k][3])

\* The /analyze requests issued, in order.
AnalyzeRequests == SelectSeq(log, LAMBDA e : e[2] = "POST /analyze")

\* A request whose answer is a 200 with a non-empty JSON object.
Evaluated(e) ==
    /\ IsOk(e[3]) /\ Val(e[3]).code = 200
    /\ IsOk(Val(e[3]).json) /\ Truthy(Val(Val(e[3]).json))
EvaluatedRequests == SelectSeq(AnalyzeRequests, Evaluated)

\* C27: each selected row is POSTed to /analyze exactly once, never
\* retried, and counted as exactly one of successful or failed, so that
\* successful + failed is the number of rows driven; a row answered with a
\* status other than 200 or with a transport error is counted as failed and
\* adds nothing to the predictions, labels and scores of the evaluator,
\* whose three lists have the same length, the number of evaluated rows.
C27_EachRowCountedOnce ==
    (route = "harness" /\ pc \in {"loop", "report"}) =>
        /\ Len(AnalyzeRequests) = idx - 1
        /\ \A k \in 1..Len(AnalyzeRequests) : AnalyzeRequests[k][1] = k
        /\ wire.successful + wire.failed = idx - 1
        /\ wire.successful = Len(EvaluatedRequests)
        /\ Len(rec.predictions) = wire.successful
        /\ Len(rec.true_labels) = wire.successful
        /\ Len(rec.scores) = wire.successful
        /\ \A k \in 1..Len(EvaluatedRequests) :
              /\ rec.true_labels[k] = emails[EvaluatedRequests[k][1]]
              /\ rec.scores[k] =
                    DictGet(Val(Val(EvaluatedRequests[k][3]).json), "overall_score", 0)

\* Every row was driven: one evaluated, one answered 500 and one lost to a
\* transport error.
C27_MixedRunCounted ==
    /\ route = "harness" /\ pc = "report"
    /\ wire.successful = 1 /\ wire.failed = 2
    /\ \E k \in 1..Len(log) : IsAnalyze(k) /\ IsRaise(log[k][3])
    /\ \E k \in 1..Len(log) : IsAnalyze(k) /\ IsOk(log[k][3]) /\ Val(log[k][3]).code = 500

(***************************************************************************)
(* Concurrent /analyze requests of the production variant (threaded=True). *)
(* Each request is handled by its own thread: data holds the payloads,     *)
(* emails the parsed requests, wire each thread's position, context the    *)
(* contexts created so far and back the answers, all by thread.            *)
(***************************************************************************)
\* Most requests handled at once.
MaxThreads == 2
Threads == 1..MaxThreads

\* The payloads of the concurrent requests.
c_pay ==
    PyDict([ subject |-> Str(<< "p", "a", "y" >>),
             body |-> Str(<< "y", " " >> \o url_a),
             from |-> Str(<< "b", "@", "x", ".", "i", "o" >>),
             attachments |-> PyList(<< att_exe >>) ])
c_hi == PyDict([ subject |-> Str(<< "h", "i" >>), body |-> Str(<< "o", "k" >>),
                 from |-> Str(<< "a", "-", "b" >>) ])
ConcurrentPayloads == { c_pay, c_hi, PyDict(EmptyDict) }

\* The classifiers: loaded once, shared by the threads, read-only and
\* deterministic, so each is a function of the text it is given.
TextOracle(name, text) ==
    IF TypeOf(text) # "str" THEN Raise("ValueError")
    ELSE IF Contains(Val(text), << "-" >>) THEN Raise("RuntimeError")
    ELSE IF Contains(Val(text), << "y" >>)
    THEN Res(l_phishing, "num", IF name = "Email" THEN 9 ELSE 7)
    ELSE Res(l_benign, "num", 2)
UrlOracle(url) == IF url = url_a THEN Res(l_malicious, "num", 9) ELSE Res(l_benign, "num", 2)
MalwareOracle(bytes) == IF bytes = att_exe[2].bytes THEN << TRUE, 7 >> ELSE << FALSE, 9 >>

\* validator.validate(context) for the validator of that name.
ValidateBy(name, ctx, req) ==
    CASE name = "Email"   -> Email_validate(ctx, req, TextOracle(name, req.body))
      [] name = "Sender"  -> Sender_validate(ctx, req, TextOracle(name, req.from_))
      [] name = "Subject" -> Subject_validate(ctx, req, TextOracle(name, req.subject))
      [] name = "FraudDetection" ->
            FraudDetection_validate(ctx, req, TextOracle(name, req.body))
      [] name = "MaliciousUrlDetector" ->
            MaliciousUrlDetector_validate(ctx, req, [u \in UrlsOf(req) |-> UrlOracle(u)])
      [] OTHER ->
            MalConvDetector_validate(ctx, req, [b \in BytesOf(req) |-> MalwareOracle(b)])

\* One context for every request.
SharedContext(t) == 1

\* "context = Context(email_request)": a local of the handler, so each
\* request in flight has a context of its own.
ContextOf(t) == t

Position(t, p, i) == [ wire EXCEPT ![t] = [ pc |-> p, vi |-> i ] ]
Answered(t, code, body) ==
    /\ back' = [ back EXCEPT ![t] = << code, body >> ]
    /\ wire' = Position(t, "done", wire[t].vi)

\* analyze_email, up to the loop over the flow, in thread t.
ThreadReceive(t) ==
    /\ route = "concurrent" /\ wire[t].pc = "recv"
    /\ IF ~Truthy(data[t])
       THEN /\ Answered(t, 400, ErrorResponse("No JSON data provided", ""))
            /\ UNCHANGED << emails, context >>
       ELSE LET parsed == EmailRequest_from_dict(data[t])
            IN  IF IsRaise(parsed)
                THEN /\ Answered(t, 400, ErrorResponse("Invalid request format",
                                                       Val(parsed)))
                     /\ UNCHANGED << emails, context >>
                ELSE /\ emails' = [ emails EXCEPT ![t] = Val(parsed) ]
                     /\ context' = [ s \in DOMAIN context \cup { ContextOf(t) } |->
                                       IF s = ContextOf(t) THEN Context ELSE context[s] ]
                     /\ wire' = Position(t, "validate", 1)
                     /\ UNCHANGED back
    /\ log' = << << t, "recv", FALSE >> >>
    /\ UNCHANGED << route, data, pc, idx, vi, results, status, reply, rec >>

\* One pass of "for validator in flow: validator.validate(context)" in
\* thread t.
ThreadValidate(t) ==
    /\ route = "concurrent" /\ wire[t].pc = "validate"
    /\ wire[t].vi <= Len(flow)
    /\ context' = [ context EXCEPT ![ContextOf(t)] =
                      ValidateBy(flow[wire[t].vi], @, emails[t]) ]
    /\ wire' = Position(t, "validate", wire[t].vi + 1)
    /\ log' = << << t, flow[wire[t].vi], FALSE >> >>
    /\ UNCHANGED << route, data, pc, emails, idx, vi, results, status, reply, rec, back >>

\* ResponseBuilder.build(context) and the answer, in thread t.
ThreadBuild(t) ==
    /\ route = "concurrent" /\ wire[t].pc = "validate"
    /\ wire[t].vi > Len(flow)
    /\ \E now \in Timestamps :
        \E r \in { build(context[ContextOf(t)], emails[t], now) } :
          IF IsRaise(r)
          THEN Answered(t, 500, ErrorResponse("Internal server error", Val(r)))
          ELSE Answered(t, 200, EmailAnalysisResponse_to_dict(Val(r)))
    /\ log' = << << t, "build", FALSE >> >>
    /\ UNCHANGED << route, data, pc, emails, idx, vi, context, results, status, reply,
                    rec >>

InitConcurrent ==
    /\ route = "concurrent"
    /\ data \in [Threads -> ConcurrentPayloads]
    /\ pc = "serve"
    /\ emails = [t \in Threads |-> PyNone]
    /\ idx = 0 /\ vi = 0
    /\ context = Context
    /\ results = << >>
    /\ status = 0
    /\ reply = PyNone
    /\ log = << >>
    /\ rec = PyNone
    /\ wire = [t \in Threads |-> [ pc |-> "recv", vi |-> 0 ]]
    /\ back = [t \in Threads |-> PyNone]

NextConcurrent ==
    \E t \in Threads :
        \/ ThreadReceive(t)
        \/ ThreadValidate(t)
        \/ ThreadBuild(t)

SpecConcurrent == InitConcurrent /\ [][NextConcurrent]_vars

(***************************************************************************)
(* C28: concurrent requests                                                *)
(***************************************************************************)
\* The context of a request handled alone, after the first n validators.
RECURSIVE AloneContext(_, _)
AloneContext(req, n) ==
    IF n = 0 THEN Context
    ELSE ValidateBy(flow[n], AloneContext(req, n - 1), req)

\* The answer to a request handled alone at the time `now`.
AloneAnswer(payload, now) ==
    IF ~Truthy(payload) THEN << 400, ErrorResponse("No JSON data provided", "") >>
    ELSE LET req == Val(EmailRequest_from_dict(payload))
             r == build(AloneContext(req, Len(flow)), req, now)
         IN  IF IsRaise(r)
             THEN << 500, ErrorResponse("Internal server error", Val(r)) >>
             ELSE << 200, EmailAnalysisResponse_to_dict(Val(r)) >>

\* The thread that took the last step.
LastThread == log[1][1]

\* C28: for every interleaving of concurrently handled /analyze requests,
\* the classifiers being deterministic and read-only, each request has a
\* context of its own that holds the writes of its own validators only,
\* and each answer is the one the same request gets when handled alone.
C28_AnswersAsAlone ==
    (route = "concurrent" /\ log # << >>) =>
        /\ \A t \in Threads :
              wire[t].pc = "validate" =>
                  /\ ContextOf(t) \in DOMAIN context
                  /\ context[ContextOf(t)] = AloneContext(emails[t], wire[t].vi - 1)
        /\ \A t \in Threads : \A u \in Threads \ {t} : ContextOf(t) # ContextOf(u)
        /\ \A t \in Threads : (wire[t].pc = "done") <=> (back[t] # PyNone)
        /\ wire[LastThread].pc = "done" =>
              \E now \in Timestamps : back[LastThread] = AloneAnswer(data[LastThread], now)

\* An answer, once given, is never changed by a later step of any thread.
AnswersKept ==
    [][\A t \in Threads : (route = "concurrent" /\ back[t] # PyNone) => back'[t] = back[t]]_vars

\* The second request was received, validated and answered 200 while the
\* first, a different one, was between two of its validators.
C28_InterleavedRunAnswered ==
    /\ route = "concurrent"
    /\ data[1] = c_pay /\ data[2] = c_hi
    /\ wire[1].pc = "validate" /\ wire[1].vi = 3
    /\ context[ContextOf(1)] # Context
    /\ log = << << 2, "build", FALSE >> >>
    /\ wire[2].pc = "done"
    /\ back[2][1] = 200
    /\ back[2] # AloneAnswer(c_pay, Val(back[2][2]).timestamp)

(***************************************************************************)
(* Both API variants: the production one (backend/app.py) and the early    *)
(* one (src/app.py), each serving one request.                             *)
(***************************************************************************)
InitVariants == Init \/ InitEarly

NextVariants ==
    \/ AnalyzeReceive
    \/ BatchReceive
    \/ RunEmail
    \/ RunSender
    \/ RunSubject
    \/ RunMaliciousUrlDetector
    \/ RunMalConvDetector
    \/ BuildResponse
    \/ BatchRespond
    \/ EarlyAnalyzeReceive
    \/ EarlyValidate
    \/ EarlyRespond
    \/ EarlyBatchReceive
    \/ EarlyBatchAnalyze
    \/ EarlyBatchRespond

SpecVariants == InitVariants /\ [][NextVariants]_vars

(***************************************************************************)
(* C29: falsy bodies of POST /analyze                                      *)
(***************************************************************************)
\* The JSON bodies that are falsy in Python, null apart.
FalsyBodies ==
    { PyDict(EmptyDict), PyList(<< >>), PyInt(0), PyBool(FALSE), Str(<< >>) }

\* C29: in both API variants POST /analyze with the body {}, [], 0, false
\* or "" is answered 400 {error: "No JSON data provided"}, and the body is
\* never parsed into a request nor analysed: no request, no validator run,
\* no context entry and no result exist at any point of the handling.
C29_FalsyBodyRejected ==
    (route \in {"analyze", "early_analyze"} /\ data \in FalsyBodies) =>
        /\ emails = << >> /\ log = << >> /\ results = << >>
        /\ context = Context
        /\ pc \in {"recv", "done"}
        /\ pc = "done" =>
              /\ status = 400
              /\ reply = PyDict([ error |-> "No JSON data provided" ])

\* The body {} was answered by the production variant.
C29_EmptyObjectAnswered ==
    /\ route = "analyze"
    /\ data = PyDict(EmptyDict)
    /\ pc = "done" /\ status = 400
    /\ reply = PyDict([ error |-> "No JSON data provided" ])
    /\ emails = << >>

\* The same, by the early variant.
EarlyEmptyObjectAnswered ==
    /\ route = "early_analyze"
    /\ data = PyDict(EmptyDict)
    /\ pc = "done" /\ status = 400
    /\ emails = << >>

(***************************************************************************)
(* C30: a production batch is all-or-nothing                               *)
(***************************************************************************)
\* The emails submitted in a batch body, as sent.
SubmittedEmails ==
    IF TypeOf(data) = "dict" /\ "emails" \in DOMAIN Val(data)
       /\ TypeOf(Val(data)["emails"]) = "list"
    THEN Val(Val(data)["emails"])
    ELSE << >>

\* Some submitted email fails to parse.
SomeEmailUnparsable ==
    \E i \in 1..Len(SubmittedEmails) : IsRaise(EmailRequest_from_dict(SubmittedEmails[i]))

\* The answer is an error object: no total, no results.
NoResultsAnswered == TypeOf(reply) = "dict" /\ DOMAIN Val(reply) \subseteq {"error", "message"}

\* C30: a production batch is all-or-nothing. If any one email fails to
\* parse the answer is 400 and no email is analysed; if analysing or
\* building any one email raises the answer is 500 {error: "Internal server
\* error", message}; an answer that is not 200 carries no result, whatever
\* was computed before, and a 200 carries the results of all the emails.
C30_BatchAllOrNothing ==
    (route = "batch" /\ pc = "done") =>
        /\ status \in {200, 400, 500}
        /\ SomeEmailUnparsable =>
              /\ status = 400 /\ NoResultsAnswered
              /\ Val(reply)["error"] = "Invalid request format"
              /\ results = << >> /\ log = << >>
        /\ status = 500 =>
              /\ NoResultsAnswered
              /\ Val(reply)["error"] = "Internal server error"
              /\ "message" \in DOMAIN Val(reply)
        /\ (log # << >> /\ Len(results) < Len(emails)) => status = 500
        /\ status # 200 => NoResultsAnswered
        /\ status = 200 => Len(Val(reply).results) = Len(SubmittedEmails)

\* The second email of a batch made the build raise after the first email
\* was analysed and its response built: the answer is 500 without it.
C30_LaterEmailFailedAll ==
    /\ route = "batch" /\ pc = "done" /\ status = 500
    /\ Len(emails) = 2 /\ Len(results) = 1
    /\ idx = 2
    /\ NoResultsAnswered

\* The second email of a batch failed to parse: 400, nothing analysed.
UnparsableEmailFailedAll ==
    /\ route = "batch" /\ pc = "done" /\ status = 400
    /\ Len(SubmittedEmails) = 2
    /\ IsOk(EmailRequest_from_dict(SubmittedEmails[1]))
    /\ SomeEmailUnparsable

====
